---- MODULE Spec2Model ----
(***************************************************************************)
(* A model of ShopifyService (shopify.service.ts): the page-number search  *)
(* over the cursor-only product listing, and product creation with its     *)
(* polling loop.  Each asynchronous method is a chain of request/response  *)
(* steps; one action models the code between two awaits.  The backend is   *)
(* the environment: every response is a nondeterministic choice.           *)
(***************************************************************************)
EXTENDS Integers, Sequences, FiniteSets, TLC

(***************************************************************************)
(* Strings the code inspects are sequences of one-character strings.       *)
(***************************************************************************)
GidPrefix == <<"g","i","d",":","/","/","s","h","o","p","i","f","y","/">>
KindProduct == <<"P","r","o","d","u","c","t">>
Slash == <<"/">>

Gid(kind, suffix) == GidPrefix \o kind \o Slash \o suffix

IsPrefix(p, s) == Len(p) <= Len(s) /\ SubSeq(s, 1, Len(p)) = p

SetMin(S) == CHOOSE x \in S : \A y \in S : x <= y

\* Optional values (null / undefined against a present value).
None == [some |-> FALSE, val |-> <<>>]
Some(x) == [some |-> TRUE, val |-> x]

\* A mutant of simplifyGid: strips nothing.
simplifyGidKeep(id) == id

\* id.replace(/^gid:\/\/shopify\/[^/]+\/(.+)$/, '$1'): the kind is one or more
\* non-slash characters, so the slash that ends it is the first slash after
\* the prefix; the suffix is one or more characters.  No match: id unchanged.
simplifyGid(id) ==
  IF ~IsPrefix(GidPrefix, id) THEN id
  ELSE LET rest == SubSeq(id, Len(GidPrefix) + 1, Len(id))
           slashes == {i \in 1..Len(rest) : rest[i] = "/"}
       IN  IF slashes = {} THEN id
           ELSE LET j == SetMin(slashes)
                IN  IF j >= 2 /\ j < Len(rest)
                    THEN SubSeq(rest, j + 1, Len(rest))
                    ELSE id

\* userErrors.map((e) => e.message).join(', ')
RECURSIVE JoinMessages(_)
JoinMessages(msgs) ==
  IF Len(msgs) = 0 THEN <<>>
  ELSE IF Len(msgs) = 1 THEN <<msgs[1]>>
  ELSE <<msgs[1], ", ">> \o JoinMessages(Tail(msgs))

(***************************************************************************)
(* Program constants.                                                      *)
(***************************************************************************)
SyncMaxVariants == 10
IntervalMs == 1500
TimeoutMs == 120000

(***************************************************************************)
(* Bounds of the model.                                                    *)
(***************************************************************************)
\* The latency of a slow backend request, in ms (a fast one takes 0).
SlowLatency == 50000
Latencies == {0, SlowLatency}

\* dto.variants.length of the requests tried: the spec's examples (3, 50)
\* and both sides of the synchronous threshold.
VariantCounts == {3, SyncMaxVariants, SyncMaxVariants + 1, 50}

\* The product id of an immediate product, and that of a completed operation.
SyncProductId == Gid(KindProduct, <<"4","2">>)
AsyncProductId == Gid(KindProduct, <<"7">>)
OperationId == Gid(<<"O","p">>, <<"9">>)
UserErrorLists == {<<>>, <<"Title is blank">>, <<"Title is blank", "Price is negative">>}
PollUserErrorLists == {<<>>, <<"Title is blank", "Price is negative">>}

(***************************************************************************)
(* Outcomes of a step of create / waitForProductOperation.                 *)
(***************************************************************************)
Pending == [kind |-> "pending", value |-> <<>>, msg |-> "", detail |-> <<>>]
Returned(v) == [kind |-> "returned", value |-> v, msg |-> "", detail |-> <<>>]
Thrown(m, d) == [kind |-> "thrown", value |-> <<>>, msg |-> m, detail |-> d]
\* A mutant of Poll: the status queries are sent without the handle's id.
PollNoHandle(opId) == [kind |-> "poll", value |-> <<>>, msg |-> "", detail |-> <<>>]

Poll(opId) == [kind |-> "poll", value |-> opId, msg |-> "", detail |-> <<>>]
Sleep == [kind |-> "sleep", value |-> <<>>, msg |-> "", detail |-> <<>>]

\* The response of the create mutation as create() reads it: graphqlRequest
\* throws, or resolves to {data, errors} with data.productSet =
\* {product, productSetOperation, userErrors}.
OperationHandles ==
  [id : {OperationId}, status : {"CREATED", "ACTIVE"}, product : {None}]
  \cup [id : {OperationId}, status : {"COMPLETE"},
        product : {None, Some(<<>>), Some(AsyncProductId)}]

SubmitResponses ==
  [transport : {"ok"}, errors : {FALSE}, data : {TRUE},
   product : {None, Some(SyncProductId)},
   op : {None} \cup {Some(h) : h \in OperationHandles},
   userErrors : UserErrorLists]
  \cup [transport : {"throw"}, errors : {FALSE}, data : {FALSE},
        product : {None}, op : {None}, userErrors : {<<>>}]
  \cup [transport : {"ok"}, errors : {TRUE}, data : BOOLEAN,
        product : {None}, op : {None}, userErrors : {<<>>}]
  \cup [transport : {"ok"}, errors : {FALSE}, data : {FALSE},
        product : {None}, op : {None}, userErrors : {<<>>}]

\* The response of the status query as waitForProductOperation reads it.
PolledOperations ==
  [status : {"CREATED", "ACTIVE"}, product : {None}, userErrors : PollUserErrorLists]
  \cup [status : {"COMPLETE"},
        product : {None, Some(<<>>), Some(AsyncProductId)},
        userErrors : PollUserErrorLists]

PollResponses ==
  [transport : {"ok"}, errors : {FALSE}, data : {TRUE},
   op : {Some(o) : o \in PolledOperations}]
  \cup [transport : {"ok"}, errors : {FALSE}, data : {TRUE}, op : {None}]
  \cup [transport : {"ok"}, errors : {FALSE}, data : {FALSE}, op : {None}]
  \cup [transport : {"ok"}, errors : {TRUE}, data : {TRUE},
        op : {None} \cup {Some(o) : o \in {q \in PolledOperations : Len(q.userErrors) > 0}}]
  \cup [transport : {"throw"}, errors : {FALSE}, data : {FALSE}, op : {None}]

NoResponse == [transport |-> "none"]

VARIABLES
  c_pc,          \* where the create call is
  c_variants,    \* dto.variants.length
  c_synchronous, \* the local `synchronous`
  c_submits,     \* create mutations sent
  c_submitResp,  \* the response the mutation got
  c_polls,       \* status queries sent
  c_waits,       \* interval waits completed
  c_now,         \* Date.now(), ms since the call began
  c_started,     \* the local `started` of waitForProductOperation
  c_lastPoll,    \* the last status response
  c_operationId, \* the operationId the status queries are sent with
  c_result       \* what the call returned or threw

cvars == <<c_pc, c_variants, c_synchronous, c_submits, c_submitResp, c_polls,
           c_waits, c_now, c_started, c_lastPoll, c_operationId, c_result>>

VARIABLES
  s_pc,        \* where the search call is
  s_params,    \* the ProductSearchParams passed in
  s_total,     \* the local `total`
  s_page,      \* the local `page`
  s_limit,     \* the local `limit`
  s_after,     \* the local `after`
  s_i,         \* the loop variable of the skip walk
  s_counts,    \* count requests sent
  s_requests,  \* the variables of the listing requests sent, in order
  s_answered,  \* listing responses received
  s_lastStep,  \* "hop" or "final": the step the last response answered
  s_lastResp,  \* the last listing response
  s_countResp, \* the response the count request got
  s_result     \* what the call returned or threw

svars == <<s_pc, s_params, s_total, s_page, s_limit, s_after, s_i, s_counts,
           s_requests, s_answered, s_lastStep, s_lastResp, s_countResp, s_result>>

VARIABLES
  f_pc,        \* where the findProduct call is
  f_id,        \* the local `shopifyGid`
  f_product,   \* the local `product`, as PRODUCT_DETAILS returned it
  f_variants,  \* the local `variants` of fetchAdditionalVariants
  f_next,      \* the local `next` of fetchAdditionalVariants
  f_fetches,   \* PRODUCT_VARIANTS_PAGE requests sent
  f_pages,     \* size and hasNextPage of each variants page received, in order
  f_sentAfter, \* the `after` of the request the last chunk answered
  f_lastChunk, \* the last response to a PRODUCT_VARIANTS_PAGE request
  f_result     \* what the call returned or threw

fvars == <<f_pc, f_id, f_product, f_variants, f_next, f_fetches, f_pages,
           f_sentAfter, f_lastChunk, f_result>>

VARIABLES
  h_pc,        \* where the checkHealth call is
  h_resp,      \* the response the shop query got
  h_result     \* the HealthStatus returned, or what was thrown

hvars == <<h_pc, h_resp, h_result>>

VARIABLES
  session,         \* this.session, the handle every request is sent with
  callerCancelled  \* the caller of create has given up on the call

VARIABLES
  k_result,    \* what the promise of StoreController.create settled with
  k_logged     \* the catch block of StoreController.create logged an error

VARIABLES
  g_in,        \* the resource and the value a toGid schema is given
  g_out,       \* what the schema parsed it to, and simplifyGid of that
  q_params,    \* the ProductSearchParams search is called with
  q_out,       \* the query strings and the sort search and countProducts send
  i_product,   \* the featuredMedia and media of a GQLProductNode
  i_out,       \* the images mapUnifiedProduct gives it
  v_input,     \* the object CreateProductSchema is given
  v_out        \* the outcome of parsing it

\* The inputs and outputs of the pure functions applied.
pureVars == <<g_in, g_out, q_params, q_out, i_product, i_out, v_input, v_out>>

\* What the steps of each call leave alone.
notCreate == <<svars, fvars, hvars, session, callerCancelled, k_result, k_logged, pureVars>>
notSearch == <<cvars, fvars, hvars, session, callerCancelled, k_result, k_logged, pureVars>>
notFind == <<cvars, svars, hvars, session, callerCancelled, k_result, k_logged, pureVars>>
notHealth == <<cvars, svars, fvars, session, callerCancelled, k_result, k_logged, pureVars>>
serviceVars == <<cvars, svars, fvars, hvars, session, callerCancelled, k_result, k_logged>>

\* A function that was not called yet has neither argument nor result.
NotCalled == [called |-> FALSE]

\* A mutant of Rethrown: graphqlRequest swallows the error it caught.
RethrownNever(r) == FALSE

\* graphqlRequest: catch (error) { log; throw error } -- the caller's await
\* throws when the transport failed.
Rethrown(r) == r.transport = "throw"

\* const synchronous = dto.variants.length <= 10
Synchronous(n) == n <= SyncMaxVariants

\* A mutant of AfterSubmit: the user errors of the answer are not looked at.
AfterSubmitIgnoringUserErrors(sync, r) ==
  IF r.errors THEN Thrown("Failed to create product: errors", <<>>)
  ELSE IF ~r.data THEN Thrown("Failed to create product: No response data", <<>>)
  ELSE IF sync /\ r.product.some THEN Returned(simplifyGid(r.product.val))
  ELSE IF ~sync /\ r.op.some
    THEN IF r.op.val.status = "COMPLETE"
         THEN IF r.op.val.product.some
              THEN Returned(r.op.val.product.val)
              ELSE Thrown("TypeError: Cannot read properties of null", <<>>)
         ELSE Poll(r.op.val.id)
  ELSE Thrown("Failed to create product: No debio llegas aqui", <<>>)

\* create(), from the resolution of the mutation to its return, throw or
\* call of waitForProductOperation.
AfterSubmit(sync, r) ==
  IF r.errors THEN Thrown("Failed to create product: errors", <<>>)
  ELSE IF ~r.data THEN Thrown("Failed to create product: No response data", <<>>)
  ELSE IF Len(r.userErrors) > 0
    THEN Thrown("Failed to create product: user errors", JoinMessages(r.userErrors))
  ELSE IF sync /\ r.product.some THEN Returned(simplifyGid(r.product.val))
  ELSE IF ~sync /\ r.op.some
    THEN IF r.op.val.status = "COMPLETE"
         THEN IF r.op.val.product.some
              THEN Returned(r.op.val.product.val)
              ELSE Thrown("TypeError: Cannot read properties of null", <<>>)
         ELSE Poll(r.op.val.id)
  ELSE Thrown("Failed to create product: No debio llegas aqui", <<>>)

\* A mutant of TimedOut: the loop gives up one interval late.
TimedOutLate(elapsed) == elapsed > TimeoutMs + IntervalMs

\* A mutant of TimedOut: the bound is never reached.
TimedOutNever(elapsed) == FALSE

\* Date.now() - started > timeoutMs
TimedOut(elapsed) == elapsed > TimeoutMs

\* A mutant of AfterPoll: the timeout is tested before the status.
AfterPollTimeoutFirst(r, elapsed) ==
  IF r.errors THEN Thrown("Polling error: errors", <<>>)
  ELSE IF ~r.data \/ ~r.op.some THEN Thrown("Polling error: no operation data", <<>>)
  ELSE LET op == r.op.val
       IN  IF Len(op.userErrors) > 0
           THEN Thrown("ProductSet operation failed", JoinMessages(op.userErrors))
           ELSE IF TimedOut(elapsed)
           THEN Thrown("Timed out waiting for productSet operation", <<op.status>>)
           ELSE IF op.status = "COMPLETE"
           THEN IF ~op.product.some \/ op.product.val = <<>>
                THEN Thrown("Operation COMPLETE but product id is missing", <<>>)
                ELSE Returned(op.product.val)
           ELSE Sleep

\* A mutant of AfterPoll: user errors of the operation are not looked at.
AfterPollIgnoringUserErrors(r, elapsed) ==
  IF r.errors THEN Thrown("Polling error: errors", <<>>)
  ELSE IF ~r.data \/ ~r.op.some THEN Thrown("Polling error: no operation data", <<>>)
  ELSE LET op == r.op.val
       IN  IF op.status = "COMPLETE"
           THEN IF ~op.product.some \/ op.product.val = <<>>
                THEN Thrown("Operation COMPLETE but product id is missing", <<>>)
                ELSE Returned(op.product.val)
           ELSE IF TimedOut(elapsed)
           THEN Thrown("Timed out waiting for productSet operation", <<op.status>>)
           ELSE Sleep

\* One turn of the loop of waitForProductOperation, from the resolution of
\* the status query to the return, the throw or the wait.
AfterPoll(r, elapsed) ==
  IF r.errors THEN Thrown("Polling error: errors", <<>>)
  ELSE IF ~r.data \/ ~r.op.some THEN Thrown("Polling error: no operation data", <<>>)
  ELSE LET op == r.op.val
       IN  IF Len(op.userErrors) > 0
           THEN Thrown("ProductSet operation failed", JoinMessages(op.userErrors))
           ELSE IF op.status = "COMPLETE"
           THEN IF ~op.product.some \/ op.product.val = <<>>
                THEN Thrown("Operation COMPLETE but product id is missing", <<>>)
                ELSE Returned(op.product.val)
           ELSE IF TimedOut(elapsed)
           THEN Thrown("Timed out waiting for productSet operation", <<op.status>>)
           ELSE Sleep

\* A mutant of WakeTime: the loop polls again without waiting.
WakeTimeNoDelay(now) == now

\* await new Promise((r) => setTimeout(r, intervalMs)): the clock when the
\* timer fires.
WakeTime(now) == now + IntervalMs

\* create(dto) up to its first await: the mutation is sent.
CreateCall(n) ==
  /\ c_pc = "idle"
  /\ c_pc' = "submitted"
  /\ c_variants' = n
  /\ c_synchronous' = Synchronous(n)
  /\ c_submits' = c_submits + 1
  /\ UNCHANGED <<c_submitResp, c_polls, c_waits, c_now, c_started, c_lastPoll,
                 c_operationId, c_result>>
  /\ UNCHANGED notCreate

\* The mutation resolves (or graphqlRequest rethrows) after `lat` ms; create
\* runs on to its end, or into waitForProductOperation up to the first status
\* query.
CreateSubmitResponse(r, lat) ==
  /\ c_pc = "submitted"
  /\ c_now' = c_now + lat
  /\ c_submitResp' = r
  /\ IF Rethrown(r)
     THEN /\ c_pc' = "failed"
          /\ c_result' = Thrown("TransportError", <<>>)
          /\ UNCHANGED <<c_polls, c_started, c_operationId>>
     ELSE LET out == AfterSubmit(c_synchronous, r)
          IN  IF out.kind = "poll"
              THEN /\ c_pc' = "polling"
                   /\ c_started' = c_now'
                   /\ c_polls' = c_polls + 1
                   /\ c_operationId' = out.value
                   /\ c_result' = Pending
              ELSE /\ c_pc' = IF out.kind = "returned" THEN "done" ELSE "failed"
                   /\ c_result' = out
                   /\ UNCHANGED <<c_polls, c_started, c_operationId>>
  /\ UNCHANGED <<c_variants, c_synchronous, c_submits, c_waits, c_lastPoll>>
  /\ UNCHANGED notCreate

\* The status query resolves (or graphqlRequest rethrows) after `lat` ms.
CreatePollResponse(r, lat) ==
  /\ c_pc = "polling"
  /\ c_now' = c_now + lat
  /\ c_lastPoll' = r
  /\ IF Rethrown(r)
     THEN /\ c_pc' = "failed"
          /\ c_result' = Thrown("TransportError", <<>>)
     ELSE LET out == AfterPoll(r, c_now' - c_started)
          IN  IF out.kind = "sleep"
              THEN /\ c_pc' = "sleeping"
                   /\ c_result' = Pending
              ELSE /\ c_pc' = IF out.kind = "returned" THEN "done" ELSE "failed"
                   /\ c_result' = out
  /\ UNCHANGED <<c_variants, c_synchronous, c_submits, c_submitResp, c_polls,
                 c_waits, c_started, c_operationId>>
  /\ UNCHANGED notCreate

\* The timer of the wait fires after intervalMs; the loop sends the next
\* status query.
CreatePollWake ==
  /\ c_pc = "sleeping"
  /\ c_pc' = "polling"
  /\ c_now' = WakeTime(c_now)
  /\ c_waits' = c_waits + 1
  /\ c_polls' = c_polls + 1
  /\ UNCHANGED <<c_variants, c_synchronous, c_submits, c_submitResp, c_started,
                 c_lastPoll, c_operationId, c_result>>
  /\ UNCHANGED notCreate

(***************************************************************************)
(* search(): page numbers over the cursor-only listing.                    *)
(***************************************************************************)
\* Bounds: the page numbers and page sizes asked for.
MaxPage == 3
MaxLimit == 2

Cursors == {"c1", "c2"}
CountValues == {0, 7}

Max2(a, b) == IF a >= b THEN a ELSE b
Min2(a, b) == IF a <= b THEN a ELSE b

\* The decimal digits of n, as a string.
RECURSIVE DecStr(_)
DecStr(n) ==
  LET d == <<"0","1","2","3","4","5","6","7","8","9">>[(n % 10) + 1]
  IN  IF n < 10 THEN <<d>> ELSE DecStr(n \div 10) \o <<d>>

\* s.replace(pat, rep) with a string pattern: the first occurrence only.
ReplaceFirst(s, pat, rep) ==
  LET hits == {i \in 1..(Len(s) - Len(pat) + 1) : SubSeq(s, i, i + Len(pat) - 1) = pat}
  IN  IF hits = {} THEN s
      ELSE LET i == SetMin(hits)
           IN  SubSeq(s, 1, i - 1) \o rep \o SubSeq(s, i + Len(pat), Len(s))

\* id.replace('gid://shopify/Product/', '')
simplifyProductGid(id) == ReplaceFirst(id, GidPrefix \o KindProduct \o Slash, <<>>)

KindVariant == <<"P","r","o","d","u","c","t","V","a","r","i","a","n","t">>

\* id.replace('gid://shopify/ProductVariant/', '')
simplifyProductVariantGid(id) == ReplaceFirst(id, GidPrefix \o KindVariant \o Slash, <<>>)

\* The part of mapUnifiedProduct that paging rests on: the product's id and
\* its variants' ids, in the order of p.variants.edges.
mapUnifiedProduct(node) ==
  [id |-> simplifyProductGid(node.id),
   variants |-> [k \in 1..Len(node.variants.edges) |->
                   [id |-> simplifyProductVariantGid(node.variants.edges[k].id)]]]

\* The k-th node of the response to the j-th listing request.
Node(j, k) ==
  [id |-> Gid(KindProduct, DecStr(j) \o DecStr(k)),
   variants |-> [edges |-> <<>>,
                 pageInfo |-> [hasNextPage |-> FALSE, endCursor |-> None]]]

\* A listing response as search() reads it: graphqlRequest throws, or
\* data?.products is missing, or has edges and an optional pageInfo.  The
\* backend returns at most `first` edges.
PageInfos ==
  {None} \cup {Some([hasNextPage |-> h, endCursor |-> c]) :
                 h \in BOOLEAN, c \in {None} \cup {Some(x) : x \in Cursors}}

ListingResponses(j, first) ==
  {[transport |-> "throw", products |-> None],
   [transport |-> "ok", products |-> None]}
  \cup {[transport |-> "ok",
         products |-> Some([edges |-> [k \in 1..n |-> Node(j, k)], pageInfo |-> pi])] :
          n \in 0..first, pi \in PageInfos}

CountResponses ==
  {[transport |-> "throw", data |-> FALSE, count |-> 0],
   [transport |-> "ok", data |-> FALSE, count |-> 0]}
  \cup {[transport |-> "ok", data |-> TRUE, count |-> c] : c \in CountValues}

NoPage == [kind |-> "pending", meta |-> <<>>, items |-> <<>>]
ThrownPage == [kind |-> "thrown", meta |-> <<>>, items |-> <<>>]

\* A mutant of ClampPage: the page is kept where a checkHealth call in
\* flight overwrites it.
ClampPageShared(p) == Max2(1, IF p = 0 \/ h_pc = "waiting" THEN 1 ELSE p)

\* const page = Math.max(1, params.page || 1)
ClampPage(p) == Max2(1, IF p = 0 THEN 1 ELSE p)

\* const limit = Math.max(1, Math.min(params.limit || 20, 250))
ClampLimit(l) == Max2(1, Min2(IF l = 0 THEN 20 ELSE l, 250))

\* A mutant of ListingVariables: one more item than the page size is asked for.
ListingVariablesOneMore(limit, after) == [first |-> limit + 1, after |-> after]

\* variables: { first: limit, after, ... } of a PRODUCT_SEARCH request
ListingVariables(limit, after) == [first |-> limit, after |-> after]

\* A mutant of OutOfRange: a response without pageInfo does not end the walk.
OutOfRangeNeedsPageInfo(r) ==
  /\ r.products.some
  /\ r.products.val.pageInfo.some
  /\ ~r.products.val.pageInfo.val.hasNextPage

\* !pageInfo?.hasNextPage, with pageInfo = pageHop.data?.products?.pageInfo
OutOfRange(r) ==
  ~(/\ r.products.some
    /\ r.products.val.pageInfo.some
    /\ r.products.val.pageInfo.val.hasNextPage)

\* A mutant of NextAfter: the walk never moves its cursor.
NextAfterNull(r) == None

\* pageInfo.endCursor ?? null, of a response that is not out of range
NextAfter(r) ==
  IF r.products.some /\ r.products.val.pageInfo.some
  THEN r.products.val.pageInfo.val.endCursor
  ELSE None

\* The page returned from inside the skip walk.
EmptyPage(total, page, limit) ==
  [kind |-> "returned",
   meta |-> [total |-> total, page |-> page, limit |-> limit,
             hasPrev |-> page > 1, hasNext |-> FALSE],
   items |-> <<>>]

\* A mutant of FinalPage: hasNext is worked out from the count.
FinalPageByTotal(total, page, limit, r) ==
  LET edges == IF r.products.some THEN r.products.val.edges ELSE <<>>
  IN  [kind |-> "returned",
       meta |-> [total |-> total, page |-> page, limit |-> limit,
                 hasPrev |-> page > 1, hasNext |-> page * limit < total],
       items |-> [k \in 1..Len(edges) |-> mapUnifiedProduct(edges[k])]]

\* The page returned after the final listing request.
FinalPage(total, page, limit, r) ==
  LET edges == IF r.products.some THEN r.products.val.edges ELSE <<>>
      hasNext == /\ r.products.some
                 /\ r.products.val.pageInfo.some
                 /\ r.products.val.pageInfo.val.hasNextPage
  IN  [kind |-> "returned",
       meta |-> [total |-> total, page |-> page, limit |-> limit,
                 hasPrev |-> page > 1, hasNext |-> hasNext],
       items |-> [k \in 1..Len(edges) |-> mapUnifiedProduct(edges[k])]]

\* countProducts(): the count, or 0 without data or when the request throws
\* (the catch at the end of countProducts).
CountOf(r) == IF ~Rethrown(r) /\ r.data THEN r.count ELSE 0

\* search(params) up to its first await: countProducts sends the count request.
SearchCall(page, limit) ==
  /\ UNCHANGED notSearch
  /\ s_pc = "idle"
  /\ s_pc' = "counting"
  /\ s_params' = [page |-> page, limit |-> limit]
  /\ s_counts' = s_counts + 1
  /\ UNCHANGED <<s_total, s_page, s_limit, s_after, s_i, s_requests, s_answered,
                 s_lastStep, s_lastResp, s_countResp, s_result>>

\* countProducts resolves; search clamps page and limit and sends the first
\* listing request: a skip step when page > 1, else the final one.
SearchCountResponse(r) ==
  /\ UNCHANGED notSearch
  /\ s_pc = "counting"
  /\ s_countResp' = r
  /\ s_total' = CountOf(r)
  /\ s_page' = ClampPage(s_params.page)
  /\ s_limit' = ClampLimit(s_params.limit)
  /\ s_after' = None
  /\ s_i' = 1
  /\ s_requests' = <<ListingVariables(s_limit', None)>>
  /\ s_pc' = IF 1 < s_page' THEN "hopping" ELSE "fetching"
  /\ UNCHANGED <<s_params, s_counts, s_answered, s_lastStep, s_lastResp, s_result>>

\* A skip step's request resolves or throws.
SearchHopResponse(r) ==
  /\ UNCHANGED notSearch
  /\ s_pc = "hopping"
  /\ s_answered' = s_answered + 1
  /\ s_lastStep' = "hop"
  /\ s_lastResp' = r
  /\ IF Rethrown(r)
     THEN /\ s_pc' = "failed"
          /\ s_result' = ThrownPage
          /\ UNCHANGED <<s_after, s_i, s_requests>>
     ELSE IF OutOfRange(r)
     THEN /\ s_pc' = "done"
          /\ s_result' = EmptyPage(s_total, s_page, s_limit)
          /\ UNCHANGED <<s_after, s_i, s_requests>>
     ELSE /\ s_after' = NextAfter(r)
          /\ s_i' = s_i + 1
          /\ s_requests' = Append(s_requests, ListingVariables(s_limit, s_after'))
          /\ s_pc' = IF s_i' < s_page THEN "hopping" ELSE "fetching"
          /\ UNCHANGED s_result
  /\ UNCHANGED <<s_params, s_total, s_page, s_limit, s_counts, s_countResp>>

\* The final listing request resolves or throws.
SearchFinalResponse(r) ==
  /\ UNCHANGED notSearch
  /\ s_pc = "fetching"
  /\ s_answered' = s_answered + 1
  /\ s_lastStep' = "final"
  /\ s_lastResp' = r
  /\ IF Rethrown(r)
     THEN /\ s_pc' = "failed"
          /\ s_result' = ThrownPage
     ELSE /\ s_pc' = "done"
          /\ s_result' = FinalPage(s_total, s_page, s_limit, r)
  /\ UNCHANGED <<s_params, s_total, s_page, s_limit, s_after, s_i, s_counts,
                 s_requests, s_countResp>>

\* The answers the backend may give to the listing request in flight.
ListingAnswers ==
  IF s_requests = <<>> THEN {}
  ELSE ListingResponses(Len(s_requests), s_requests[Len(s_requests)].first)

SearchNext ==
  \/ \E page \in 0..MaxPage, limit \in 1..MaxLimit : SearchCall(page, limit)
  \/ \E r \in CountResponses : SearchCountResponse(r)
  \/ \E r \in ListingAnswers : SearchHopResponse(r)
  \/ \E r \in ListingAnswers : SearchFinalResponse(r)

(***************************************************************************)
(* findProduct and fetchAdditionalVariants.                                *)
(***************************************************************************)
DETAILS_VARIANTS_PAGE_SIZE == 250

\* The most PRODUCT_VARIANTS_PAGE requests the backend answers with
\* hasNextPage = true before its list of variants ends.
MaxFetches == 2

Digits == {"0","1","2","3","4","5","6","7","8","9"}

\* /^\d+$/.test(id)
IsDigits(id) == Len(id) > 0 /\ \A i \in 1..Len(id) : id[i] \in Digits

\* ensureProductGid: the gid to ask for, or None when it throws
\* 'Unsupported Shopify product identifier'.
ensureProductGid(id) ==
  IF IsPrefix(GidPrefix \o KindProduct \o Slash, id) THEN Some(id)
  ELSE IF IsDigits(id) THEN Some(Gid(KindProduct, id))
  ELSE None

\* a || null, for a cursor a.
OrNull(a) == IF a.some /\ a.val # "" THEN a ELSE None

\* The ids findProduct is called with: numeric, a product gid, a handle, a
\* product gid without suffix or with a suffix that is not a number, a gid
\* of another kind, and the empty string.
FindIds ==
  {<<"4","2">>, Gid(KindProduct, <<"4","2">>), <<"h","a","t">>,
   Gid(KindProduct, <<>>), Gid(KindProduct, <<"h","a","t">>),
   Gid(KindVariant, <<"4","2">>), <<>>}

\* The k-th variant of the j-th variants page of the product; page 0 is the
\* one PRODUCT_DETAILS returns.
VariantNode(j, k) == [id |-> Gid(KindVariant, DecStr(j * 1000 + k))]

VariantPageInfos ==
  [hasNextPage : BOOLEAN, endCursor : {None} \cup {Some(c) : c \in Cursors}]

\* product.variants of a response: at most variantsPageSize edges.
Connections(j, sizes) ==
  {[edges |-> [k \in 1..n |-> VariantNode(j, k)], pageInfo |-> pi] :
     n \in sizes, pi \in VariantPageInfos}

DetailsResponses ==
  {[transport |-> "throw", product |-> None],
   [transport |-> "ok", product |-> None]}
  \cup {[transport |-> "ok",
         product |-> Some([id |-> Gid(KindProduct, <<"4","2">>), variants |-> v])] :
          v \in Connections(0, {0, 1, DETAILS_VARIANTS_PAGE_SIZE})}

\* The response to the j-th PRODUCT_VARIANTS_PAGE request; `variants` is
\* moreData?.product?.variants.
ChunkResponses(j) ==
  {[transport |-> "throw", variants |-> None],
   [transport |-> "ok", variants |-> None]}
  \cup {[transport |-> "ok", variants |-> Some(v)] :
          v \in Connections(j, {0, 2, 50})}

NoProduct == [kind |-> "pending", product |-> None, msg |-> ""]
FoundProduct(p) == [kind |-> "returned", product |-> Some(p), msg |-> ""]
FindThrown(m) == [kind |-> "thrown", product |-> None, msg |-> m]

\* A mutant of Accumulate: each chunk replaces what was gathered.
AccumulateLast(variants, chunk) == chunk.edges

\* variants.push(...chunk.edges)
Accumulate(variants, chunk) == variants \o chunk.edges

\* const merged = {...product, variants: {...product.variants, edges: variants}}
\* with variants = [...product.variants.edges, ...additionalVariants].
Merged(product, additional) ==
  [id |-> product.id,
   variants |-> [edges |-> product.variants.edges \o additional,
                 pageInfo |-> product.variants.pageInfo]]

\* findProduct(id) is called: ensureProductGid, then PRODUCT_DETAILS is sent.
FindCall(id) ==
  /\ UNCHANGED notFind
  /\ f_pc = "idle"
  /\ LET gid == ensureProductGid(id)
     IN  IF gid.some
         THEN /\ f_pc' = "details"
              /\ f_id' = gid.val
              /\ UNCHANGED f_result
         ELSE /\ f_pc' = "failed"
              /\ f_result' = FindThrown("Unsupported Shopify product identifier")
              /\ UNCHANGED f_id
  /\ UNCHANGED <<f_product, f_variants, f_next, f_fetches, f_pages, f_sentAfter,
                 f_lastChunk>>

\* PRODUCT_DETAILS resolves or throws.  With hasNextPage the first
\* PRODUCT_VARIANTS_PAGE request of fetchAdditionalVariants is sent.
FindDetailsResponse(r) ==
  /\ UNCHANGED notFind
  /\ f_pc = "details"
  /\ IF Rethrown(r)
     THEN /\ f_pc' = "failed"
          /\ f_result' = FindThrown("TransportError")
          /\ UNCHANGED <<f_product, f_next, f_fetches, f_pages>>
     ELSE IF ~r.product.some
     THEN /\ f_pc' = "failed"
          /\ f_result' = FindThrown("Shopify product not found")
          /\ UNCHANGED <<f_product, f_next, f_fetches, f_pages>>
     ELSE LET product == r.product.val
              pageInfo == product.variants.pageInfo
          IN  /\ f_product' = Some(product)
              /\ f_pages' = <<[size |-> Len(product.variants.edges),
                               hasNextPage |-> pageInfo.hasNextPage]>>
              /\ IF pageInfo.hasNextPage
                 THEN /\ f_pc' = "overflow"
                      /\ f_next' = OrNull(pageInfo.endCursor)
                      /\ f_fetches' = 1
                      /\ UNCHANGED f_result
                 ELSE /\ f_pc' = "done"
                      /\ f_result' = FoundProduct(mapUnifiedProduct(Merged(product, <<>>)))
                      /\ UNCHANGED <<f_next, f_fetches>>
  /\ UNCHANGED <<f_id, f_variants, f_sentAfter, f_lastChunk>>

\* One pass of the loop of fetchAdditionalVariants: the request resolves or
\* throws; no chunk breaks the loop; else the edges are gathered and, with
\* hasNextPage, the next request is sent.  When the loop ends findProduct
\* merges and maps the product.
FindChunkResponse(r) ==
  /\ UNCHANGED notFind
  /\ f_pc = "overflow"
  /\ f_lastChunk' = r
  /\ f_sentAfter' = f_next
  /\ IF Rethrown(r)
     THEN /\ f_pc' = "failed"
          /\ f_result' = FindThrown("TransportError")
          /\ UNCHANGED <<f_variants, f_next, f_fetches, f_pages>>
     ELSE IF ~r.variants.some
     THEN /\ f_pc' = "done"
          /\ f_result' = FoundProduct(mapUnifiedProduct(Merged(f_product.val, f_variants)))
          /\ UNCHANGED <<f_variants, f_next, f_fetches, f_pages>>
     ELSE LET chunk == r.variants.val
          IN  /\ f_variants' = Accumulate(f_variants, chunk)
              /\ f_pages' = Append(f_pages, [size |-> Len(chunk.edges),
                                             hasNextPage |-> chunk.pageInfo.hasNextPage])
              /\ f_next' = OrNull(chunk.pageInfo.endCursor)
              /\ IF chunk.pageInfo.hasNextPage
                 THEN /\ f_pc' = "overflow"
                      /\ f_fetches' = f_fetches + 1
                      /\ UNCHANGED f_result
                 ELSE /\ f_pc' = "done"
                      /\ f_result' =
                           FoundProduct(mapUnifiedProduct(Merged(f_product.val, f_variants')))
                      /\ UNCHANGED f_fetches
  /\ UNCHANGED <<f_id, f_product>>

\* The answers the backend may give to the PRODUCT_VARIANTS_PAGE request in
\* flight: its list of variants ends after at most MaxFetches further pages.
ChunkAnswers ==
  {r \in ChunkResponses(f_fetches) :
     \/ f_fetches < MaxFetches
     \/ r.transport = "throw"
     \/ ~r.variants.some
     \/ ~r.variants.val.pageInfo.hasNextPage}

FindNext ==
  \/ \E id \in FindIds : FindCall(id)
  \/ \E r \in DetailsResponses : FindDetailsResponse(r)
  \/ \E r \in ChunkAnswers : FindChunkResponse(r)


(***************************************************************************)
(* checkHealth.                                                            *)
(***************************************************************************)
HealthErrors == {"ECONNRESET", "Unauthorized"}

\* What the shop query gets: graphqlRequest throws an Error with a message,
\* or resolves to a response with or without data (and, as create reads it,
\* with or without `errors`).
HealthResponses ==
  [transport : {"throw"}, errors : {FALSE}, data : {FALSE}, message : HealthErrors]
  \cup [transport : {"ok"}, errors : BOOLEAN, data : BOOLEAN, message : {""}]

NoHealthResponse == [transport |-> "none", errors |-> FALSE, data |-> FALSE, message |-> ""]
NoHealth == [kind |-> "pending", status |-> "", message |-> ""]
HealthStatus(status, message) == [kind |-> "returned", status |-> status, message |-> message]

\* A mutant of HealthOf: the catch is missing and the error leaves the call.
HealthOfUncaught(r) ==
  IF Rethrown(r) THEN [kind |-> "thrown", status |-> "", message |-> r.message]
  ELSE IF r.data THEN HealthStatus("healthy", "")
  ELSE HealthStatus("warning", "No data returned from Shopify API")

\* try { const { data } = await graphqlRequest(query); if (data) healthy else
\* warning } catch (error) { error, (error as Error).message }
HealthOf(r) ==
  IF Rethrown(r) THEN HealthStatus("error", r.message)
  ELSE IF r.data THEN HealthStatus("healthy", "")
  ELSE HealthStatus("warning", "No data returned from Shopify API")

\* checkHealth() is called and sends the shop query.
HealthCall ==
  /\ UNCHANGED notHealth
  /\ h_pc = "idle"
  /\ h_pc' = "waiting"
  /\ UNCHANGED <<h_resp, h_result>>

\* The shop query resolves or throws; checkHealth returns.
HealthResponse(r) ==
  /\ UNCHANGED notHealth
  /\ h_pc = "waiting"
  /\ h_resp' = r
  /\ h_result' = HealthOf(r)
  /\ h_pc' = IF h_result'.kind = "returned" THEN "done" ELSE "failed"

HealthNext ==
  \/ HealthCall
  \/ \E r \in HealthResponses : HealthResponse(r)


(***************************************************************************)
(* toGid (store.tool.ts) and simplifyGid.                                  *)
(***************************************************************************)
\* String.prototype.trim
RECURSIVE Trim(_)
Trim(s) ==
  IF s = <<>> THEN s
  ELSE IF s[1] \in {" ", "\n"} THEN Trim(Tail(s))
  ELSE IF s[Len(s)] \in {" ", "\n"} THEN Trim(SubSeq(s, 1, Len(s) - 1))
  ELSE s

\* A value given to the schema: a number or a string.
Num(n) == [number |-> TRUE, n |-> n, text |-> <<>>]
Str(t) == [number |-> FALSE, n |-> 0, text |-> t]

\* String(v) of a number: an integer prints in decimal, with its sign.
NumberToString(n) == IF n < 0 THEN <<"-">> \o DecStr(0 - n) ELSE DecStr(n)

\* A mutant of Wrap: the prefix is put in front of every value.
WrapAlways(resource, v) == Gid(resource, v)

\* .transform((v) => (v.startsWith('gid://shopify/') ? v : `gid://shopify/${resource}/${v}`))
Wrap(resource, v) == IF IsPrefix(GidPrefix, v) THEN v ELSE Gid(resource, v)

\* /^gid:\/\/shopify\/[A-Za-z]+\/\d+$/.test(v)
MatchesGid(v) ==
  /\ IsPrefix(GidPrefix, v)
  /\ LET rest == SubSeq(v, Len(GidPrefix) + 1, Len(v))
         Letters == {"A","B","C","D","E","F","G","H","I","J","K","L","M","N","O","P","Q","R","S","T","U","V","W","X","Y","Z","a","b","c","d","e","f","g","h","i","j","k","l","m","n","o","p","q","r","s","t","u","v","w","x","y","z"}
     IN  \E i \in 2..(Len(rest) - 1) :
           /\ rest[i] = "/"
           /\ \A k \in 1..(i - 1) : rest[k] \in Letters
           /\ \A k \in (i + 1)..Len(rest) : rest[k] \in Digits

\* toGid(resource) parsing v: the gid, or a failure with the message
\* 'ID <resource> invalido'. The first transform is
\* (v) => (typeof v === 'number' ? String(v) : String(v).trim())
toGid(resource, v) ==
  LET gid == Wrap(resource, IF v.number THEN NumberToString(v.n) ELSE Trim(v.text))
  IN  IF MatchesGid(gid) THEN Some(gid) ELSE None

\* The values the schema is given: numbers, bare strings and gid-shaped
\* strings of several kinds and suffixes, padded or not.
GivenValues ==
  LET GivenKinds == {<<"P","r","o","d","u","c","t">>, <<"L","o","c","a","t","i","o","n">>, <<"F","i","l","e">>, <<"P","r","o","1">>, <<>>}
      GivenSuffixes == {<<"4","2">>, <<"7">>, <<>>, <<"4","a">>, <<"4","/","2">>}
      GivenPads == {<<>>, <<" ">>}
  IN
  {Num(n) : n \in {0, 42, 0 - 5}}
  \cup {Str(l \o t \o r) : l \in GivenPads, r \in GivenPads, t \in GivenSuffixes}
  \cup {Str(l \o Gid(k, t) \o r) :
          l \in GivenPads, r \in GivenPads, k \in GivenKinds, t \in GivenSuffixes}
  \cup {Str(<<"g","i","d",":","/","/","s","h","o","p","/","P","r","o","d","u","c","t","/","4","2">>)}

\* A value is parsed by toGid(resource); simplifyGid is applied to the gid it
\* gives.
ToGidParse(resource, v) ==
  /\ ~g_in.called
  /\ g_in' = [called |-> TRUE, resource |-> resource, value |-> v]
  /\ g_out' = LET gid == toGid(resource, v)
              IN  [called |-> TRUE, ok |-> gid.some, gid |-> gid.val,
                   local |-> simplifyGid(gid.val)]
  /\ UNCHANGED <<serviceVars, q_params, q_out, i_product, i_out, v_input, v_out>>

CodecNext ==
  \E resource \in {<<"L","o","c","a","t","i","o","n">>, <<"P","r","o","d","u","c","t">>, <<"V","a","r","i","a","n","t">>, <<"C","o","l","l","e","c","t","i","o","n">>, <<"F","i","l","e">>},
     v \in GivenValues : ToGidParse(resource, v)

(***************************************************************************)
(* buildShopifyQuery, kv, escapeDefault and mapSort.                       *)
(***************************************************************************)
NoText == [some |-> FALSE, val |-> <<>>]
NoNumber == [some |-> FALSE, val |-> 0]
NoFlag == [some |-> FALSE, val |-> FALSE]
NoFilters ==
  [some |-> FALSE, vendor |-> NoText, category |-> NoText, price_min |-> NoNumber,
   price_max |-> NoNumber, available_only |-> NoFlag]

\* s with a backslash put before each ch: s.replace(/ch/g, '\\ch')
RECURSIVE Escape(_, _)
Escape(s, ch) ==
  IF s = <<>> THEN <<>>
  ELSE (IF s[1] = ch THEN <<"\\", ch>> ELSE <<s[1]>>) \o Escape(Tail(s), ch)

\* kv(key, value): `${key}:'${value.replace(/'/g, "\\'")}'`
kv(key, value) == key \o <<":", "'">> \o Escape(value, "'") \o <<"'">>

\* escapeDefault(q): q.replace(/"/g, '\\"')
escapeDefault(q) == Escape(q, "\"")

\* parts.join(' ')
RECURSIVE Join(_)
Join(parts) ==
  IF parts = <<>> THEN <<>>
  ELSE IF Len(parts) = 1 THEN parts[1]
  ELSE parts[1] \o <<" ">> \o Join(Tail(parts))

\* A string is truthy when it is given and not empty.
Truthy(t) == t.some /\ t.val # <<>>

\* A mutant of FilterParts: the category is pushed before the vendor.
FilterPartsCategoryFirst(f) ==
  (IF Truthy(f.category) THEN <<kv(<<"p","r","o","d","u","c","t","_","t","y","p","e">>, f.category.val)>> ELSE <<>>)
  \o (IF Truthy(f.vendor) THEN <<kv(<<"v","e","n","d","o","r">>, f.vendor.val)>> ELSE <<>>)
  \o (IF f.price_min.some THEN <<<<"p","r","i","c","e",":",">","=">> \o NumberToString(f.price_min.val)>> ELSE <<>>)
  \o (IF f.price_max.some THEN <<<<"p","r","i","c","e",":","<","=">> \o NumberToString(f.price_max.val)>> ELSE <<>>)
  \o (IF f.available_only.some /\ f.available_only.val THEN <<<<"i","n","v","e","n","t","o","r","y","_","t","o","t","a","l",":",">","0">>>> ELSE <<>>)

\* The parts pushed for f = params.filters ?? {}, in the order of the code.
FilterParts(f) ==
  (IF Truthy(f.vendor) THEN <<kv(<<"v","e","n","d","o","r">>, f.vendor.val)>> ELSE <<>>)
  \o (IF Truthy(f.category) THEN <<kv(<<"p","r","o","d","u","c","t","_","t","y","p","e">>, f.category.val)>> ELSE <<>>)
  \o (IF f.price_min.some THEN <<<<"p","r","i","c","e",":",">","=">> \o NumberToString(f.price_min.val)>> ELSE <<>>)
  \o (IF f.price_max.some THEN <<<<"p","r","i","c","e",":","<","=">> \o NumberToString(f.price_max.val)>> ELSE <<>>)
  \o (IF f.available_only.some /\ f.available_only.val THEN <<<<"i","n","v","e","n","t","o","r","y","_","t","o","t","a","l",":",">","0">>>> ELSE <<>>)

\* The part pushed for the free text, if any, then those of the filters.
buildShopifyQuery(params) ==
  Join((IF Truthy(params.query) /\ Trim(params.query.val) # <<>>
        THEN <<escapeDefault(Trim(params.query.val))>> ELSE <<>>)
       \o FilterParts(params.filters))

\* queryString || null, the `query` variable of a request.
QueryVariable(queryString) ==
  IF queryString = <<>> THEN NoText ELSE [some |-> TRUE, val |-> queryString]

\* A mutant of mapSort: the last sort entry is the one honoured.
mapSortLast(params) ==
  IF params.sort = <<>>
  THEN [sortKey |-> IF Truthy(params.query) THEN "RELEVANCE" ELSE "ID", reverse |-> FALSE]
  ELSE LET last == params.sort[Len(params.sort)]
       IN  IF last.by = "updated" THEN [sortKey |-> "UPDATED_AT", reverse |-> last.dir = "desc"]
           ELSE IF last.by = "name" THEN [sortKey |-> "TITLE", reverse |-> last.dir = "desc"]
           ELSE [sortKey |-> IF Truthy(params.query) THEN "RELEVANCE" ELSE "ID",
                 reverse |-> FALSE]

mapSort(params) ==
  IF params.sort = <<>>
  THEN [sortKey |-> IF Truthy(params.query) THEN "RELEVANCE" ELSE "ID", reverse |-> FALSE]
  ELSE LET first == params.sort[1]
       IN  IF first.by = "updated" THEN [sortKey |-> "UPDATED_AT", reverse |-> first.dir = "desc"]
           ELSE IF first.by = "name" THEN [sortKey |-> "TITLE", reverse |-> first.dir = "desc"]
           ELSE [sortKey |-> IF Truthy(params.query) THEN "RELEVANCE" ELSE "ID",
                 reverse |-> FALSE]

\* The params search is called with, as ProductSearchParamsSchema types them.
GivenParams ==
  [query : {NoText} \cup {[some |-> TRUE, val |-> q] :
                             q \in {<<"a","b">>, <<" "," ">>, <<"a","\"","b">>, <<" ","a"," ","b"," ">>}},
   filters :
     {NoFilters}
     \cup [some : {TRUE},
           vendor : {NoText} \cup {[some |-> TRUE, val |-> t] : t \in {<<>>, <<"a","c","m","e">>, <<"o","'","k">>,
                                                                        <<"a","\\">>, <<"\\","'","x">>}},
           category : {NoText, [some |-> TRUE, val |-> <<"s","h","o","e","s">>]},
           price_min : {NoNumber, [some |-> TRUE, val |-> 0]},
           price_max : {NoNumber, [some |-> TRUE, val |-> 9]},
           available_only : {NoFlag, [some |-> TRUE, val |-> TRUE], [some |-> TRUE, val |-> FALSE]}],
   sort :
     LET SortItems == [by : {"updated", "name"}, dir : {"asc", "desc"}]
     IN  {<<>>} \cup {<<a>> : a \in SortItems} \cup {<<a, b>> : a, b \in SortItems}]

\* The head of search(params) up to the first request of countProducts: the
\* query string and the sort of the listing requests, and the query string
\* countProducts builds from the same params.
SearchPrepare(params) ==
  /\ ~q_params.called
  /\ q_params' = [called |-> TRUE, params |-> params]
  /\ q_out' = LET sorted == mapSort(params)
              IN  [called |-> TRUE,
                   listQuery |-> QueryVariable(buildShopifyQuery(params)),
                   countQuery |-> QueryVariable(buildShopifyQuery(params)),
                   sortKey |-> sorted.sortKey,
                   reverse |-> sorted.reverse]
  /\ UNCHANGED <<serviceVars, g_in, g_out, i_product, i_out, v_input, v_out>>

QueryNext == \E params \in GivenParams : SearchPrepare(params)

(***************************************************************************)
(* extractPrimaryImage and the images of mapUnifiedProduct.                *)
(***************************************************************************)
NoUrl == [some |-> FALSE, val |-> ""]
Url(u) == [some |-> TRUE, val |-> u]

\* The media nodes at one place of a product: a MediaImage with or without
\* image.url and preview.image.url, or a Video with or without a preview.
\* Each url says where it stands.
MediaNodes(place) ==
  [some : {TRUE}, typename : {"MediaImage"},
   image : {NoUrl, Url(place \o ".image")}, preview : {NoUrl, Url(place \o ".preview")}]
  \cup [some : {TRUE}, typename : {"Video"},
        image : {NoUrl}, preview : {NoUrl, Url(place \o ".preview")}]

\* n.image?.url ?? n.preview?.image?.url ?? null
ImageUrl(n) == IF n.image.some THEN n.image ELSE n.preview

\* What the loop over p.media.edges returns, from the k-th edge on.
RECURSIVE FirstOfMedia(_, _)
FirstOfMedia(media, k) ==
  IF k > Len(media) THEN NoUrl
  ELSE LET n == media[k]
       IN  IF n.typename = "MediaImage" /\ ImageUrl(n).some THEN ImageUrl(n)
           ELSE IF n.preview.some THEN n.preview
           ELSE FirstOfMedia(media, k + 1)

extractPrimaryImage(p) ==
  IF p.featuredMedia.some /\ p.featuredMedia.typename = "MediaImage"
     /\ ImageUrl(p.featuredMedia).some
  THEN ImageUrl(p.featuredMedia)
  ELSE FirstOfMedia(p.media, 1)

\* mapUnifiedProduct works out the images of a product node:
\* const images = primary ? [primary] : []
MapImages(featured, media) ==
  /\ ~i_product.called
  /\ i_product' = [called |-> TRUE, featuredMedia |-> featured, media |-> media]
  /\ i_out' = LET primary == extractPrimaryImage(i_product')
              IN  [called |-> TRUE,
                   images |-> IF primary.some THEN <<[url |-> primary.val]>> ELSE <<>>]
  /\ UNCHANGED <<serviceVars, g_in, g_out, q_params, q_out, v_input, v_out>>

\* featuredMedia is null or a node; media holds none, one or two nodes.
ImageNext ==
  \E featured \in {[some |-> FALSE, typename |-> "", image |-> NoUrl, preview |-> NoUrl]}
                     \cup MediaNodes("featured"),
     media \in {<<>>} \cup {<<a>> : a \in MediaNodes("media1")}
                 \cup {<<a, b>> : a \in MediaNodes("media1"), b \in MediaNodes("media2")} :
    MapImages(featured, media)

(***************************************************************************)
(* CreateProductSchema (store.tool.ts): the refine and the superRefine.    *)
(***************************************************************************)
KindLocation == <<"L","o","c","a","t","i","o","n">>

\* a.localeCompare(b) < 0 is RankOf[a] < RankOf[b] for the names given.
RankOf == [Color |-> 1, constructor |-> 2, Size |-> 3]

Absent == [some |-> FALSE, val |-> FALSE]
Given(b) == [some |-> TRUE, val |-> b]

\* inventoryItem: VariantInventorySchema.optional(), tracked defaults to true
\* inside a given inventoryItem.
NoInventoryItem == [some |-> FALSE, tracked |-> Absent]
NoQuantities == [some |-> FALSE, val |-> <<>>]
NoFile == [some |-> FALSE, originalSource |-> ""]

PlainVariant(ovs) ==
  [optionValues |-> ovs, inventoryItem |-> NoInventoryItem,
   inventoryQuantities |-> NoQuantities, file |-> NoFile]

\* Variants that differ in their option values only: none, one or two
\* variants, each with none, one or two option values.
PlainVariantLists ==
  LET OptionValues == [optionName : {"Size", "Color", "constructor"}, name : {"S"}]
                        \cup {[optionName |-> "Size", name |-> "M"]}
      OptionValueLists ==
        {<<>>} \cup {<<a>> : a \in OptionValues} \cup {<<a, b>> : a, b \in OptionValues}
  IN  {<<>>} \cup {<<PlainVariant(a)>> : a \in OptionValueLists}
      \cup {<<PlainVariant(a), PlainVariant(b)>> : a, b \in OptionValueLists}

\* One variant Size=S with every inventory and file setting, alone or
\* before a plain variant Size=M with quantities. inventoryQuantities is
\* absent, empty, or has one locationId that toGid('Location') accepts.
StockedVariantLists ==
  LET InventoryItems ==
        {NoInventoryItem} \cup [some : {TRUE}, tracked : {Absent, Given(TRUE), Given(FALSE)}]
      Quantities ==
        {NoQuantities, [some |-> TRUE, val |-> <<>>],
         [some |-> TRUE, val |-> <<Num(7)>>],
         [some |-> TRUE, val |-> <<Str(Gid(KindProduct, <<"4","2">>))>>]}
      VariantFiles == {NoFile, [some |-> TRUE, originalSource |-> "https://x/1.png"]}
      StockedVariants ==
        {[optionValues |-> <<[optionName |-> "Size", name |-> "S"]>>,
          inventoryItem |-> item, inventoryQuantities |-> q, file |-> file] :
           item \in InventoryItems, q \in Quantities, file \in VariantFiles}
  IN  {<<v>> : v \in StockedVariants}
      \cup {<<v, [PlainVariant(<<[optionName |-> "Size", name |-> "M"]>>)
                    EXCEPT !.inventoryQuantities = [some |-> TRUE, val |-> <<Num(7)>>]]>> :
              v \in StockedVariants}

\* The values of data as the refinements see them: tracked defaults to true
\* inside a given inventoryItem, and each locationId is what toGid('Location')
\* makes of it.
ParsedInput(input) ==
  LET ParsedInventoryItem(item) ==
        IF ~item.some THEN item
        ELSE [item EXCEPT !.tracked = IF item.tracked.some THEN item.tracked ELSE Given(TRUE)]
      ParsedQuantities(q) ==
        [q EXCEPT !.val = [k \in 1..Len(q.val) |-> toGid(KindLocation, q.val[k]).val]]
      ParsedVariant(v) ==
        [v EXCEPT !.inventoryItem = ParsedInventoryItem(v.inventoryItem),
                  !.inventoryQuantities = ParsedQuantities(v.inventoryQuantities)]
  IN  [input EXCEPT !.variants = [i \in 1..Len(input.variants) |-> ParsedVariant(input.variants[i])]]

\* optionMap[name]: the Set of the last option of that name, a member of
\* Object.prototype (a name a plain object answers to without having it as a
\* key), or undefined.
OptionMapAt(options, name) ==
  LET PrototypeNames == {"constructor"}
      own == {k \in 1..Len(options) : options[k].name = name}
  IN  IF own # {}
      THEN [kind |-> "set",
            values |-> LET last == options[CHOOSE k \in own : \A j \in own : j <= k]
                       IN  {last.values[j] : j \in 1..Len(last.values)}]
      ELSE IF name \in PrototypeNames THEN [kind |-> "inherited", values |-> {}]
      ELSE [kind |-> "undefined", values |-> {}]

\* Every option value of every variant, in the order the loops visit them.
RECURSIVE AllOptionValues(_)
AllOptionValues(variants) ==
  IF variants = <<>> THEN <<>>
  ELSE variants[1].optionValues \o AllOptionValues(Tail(variants))

\* The two loops of the refine from the k-th option value on: "true",
\* "false", or "throw" when .has is called on what is not a Set.
RECURSIVE ResolveFrom(_, _, _)
ResolveFrom(options, ovs, k) ==
  IF k > Len(ovs) THEN "true"
  ELSE LET at == OptionMapAt(options, ovs[k].optionName)
       IN  IF at.kind = "undefined" THEN "false"
           ELSE IF at.kind = "inherited" THEN "throw"
           ELSE IF ovs[k].name \notin at.values THEN "false"
           ELSE ResolveFrom(options, ovs, k + 1)

\* The predicate of .refine.
OptionsConsistent(data) ==
  IF Len(data.variants) > 0 /\ Len(data.productOptions) = 0 THEN "false"
  ELSE ResolveFrom(data.productOptions, AllOptionValues(data.variants), 1)

\* superRefine 1: a variant's file is listed in data.files.
FileIssues(data) ==
  {[rule |-> "file", variant |-> i] :
     i \in {k \in 1..Len(data.variants) :
              /\ data.variants[k].file.some
              /\ data.variants[k].file.originalSource
                   \notin {data.files[j] : j \in 1..Len(data.files)}}}

\* A mutant of TrackedIssues: a missing inventoryItem counts as tracked.
TrackedIssuesLenient(data) ==
  {[rule |-> "tracked", variant |-> i] :
     i \in {k \in 1..Len(data.variants) :
              /\ Len(data.variants[k].inventoryQuantities.val) > 0
              /\ data.variants[k].inventoryItem.some
              /\ ~data.variants[k].inventoryItem.tracked.val}}

\* superRefine 2: v.inventoryQuantities?.length and !v.inventoryItem?.tracked
TrackedIssues(data) ==
  {[rule |-> "tracked", variant |-> i] :
     i \in {k \in 1..Len(data.variants) :
              /\ Len(data.variants[k].inventoryQuantities.val) > 0
              /\ ~(/\ data.variants[k].inventoryItem.some
                   /\ data.variants[k].inventoryItem.tracked.val)}}

\* superRefine 3: the locationId of each quantity is tested with
\* /^gid:\/\/shopify\/Location\/\d+$/.test(iq.locationId)
LocationIssues(data) ==
  LET MatchesLocationGid(v) ==
        /\ IsPrefix(Gid(KindLocation, <<>>), v)
        /\ IsDigits(SubSeq(v, Len(Gid(KindLocation, <<>>)) + 1, Len(v)))
  IN
  {[rule |-> "locationId", variant |-> i] :
     i \in {k \in 1..Len(data.variants) :
              \E j \in 1..Len(data.variants[k].inventoryQuantities.val) :
                ~MatchesLocationGid(data.variants[k].inventoryQuantities.val[j])}}

\* [...optionValues].sort((a, b) => a.optionName.localeCompare(b.optionName)):
\* a stable sort by option name.
RECURSIVE SortByOptionName(_)
SortByOptionName(ovs) ==
  IF ovs = <<>> THEN <<>>
  ELSE LET least == SetMin({RankOf[ovs[k].optionName] : k \in 1..Len(ovs)})
           at == SetMin({k \in 1..Len(ovs) : RankOf[ovs[k].optionName] = least})
       IN  <<ovs[at]>> \o SortByOptionName(SubSeq(ovs, 1, at - 1) \o SubSeq(ovs, at + 1, Len(ovs)))

\* JSON.stringify of the sorted option values: equal keys are equal lists.
VariantKey(v) == SortByOptionName(v.optionValues)

\* superRefine 4: a variant whose key was seen at an earlier variant.
DuplicateIssues(data) ==
  {[rule |-> "duplicate", variant |-> i] :
     i \in {k \in 1..Len(data.variants) :
              \E j \in 1..(k - 1) : VariantKey(data.variants[j]) = VariantKey(data.variants[k])}}

\* CreateProductSchema parsing an input whose fields are each valid: the
\* refine throws, or its issue and those of the superRefine are gathered.
ParseOutcome(input) ==
  LET data == ParsedInput(input)
      consistent == OptionsConsistent(data)
      issues == (IF consistent = "false" THEN {[rule |-> "options", variant |-> 0]} ELSE {})
                  \cup FileIssues(data) \cup TrackedIssues(data)
                  \cup LocationIssues(data) \cup DuplicateIssues(data)
  IN  IF consistent = "throw"
      THEN [called |-> TRUE, outcome |-> "TypeError", issues |-> {}]
      ELSE [called |-> TRUE,
            outcome |-> IF issues = {} THEN "accepted" ELSE "rejected",
            issues |-> issues]

ParseCreate(input) ==
  /\ ~v_input.called
  /\ v_input' = [called |-> TRUE, input |-> input]
  /\ v_out' = ParseOutcome(input)
  /\ UNCHANGED <<serviceVars, g_in, g_out, q_params, q_out, i_product, i_out>>

SchemaNext ==
  \/ \E options \in {<<>>,
                      <<[name |-> "Size", values |-> <<"S">>]>>,
                      <<[name |-> "Size", values |-> <<"S", "M">>]>>,
                      <<[name |-> "Size", values |-> <<"S", "M">>],
                        [name |-> "Color", values |-> <<"S">>]>>},
        variants \in PlainVariantLists :
       ParseCreate([productOptions |-> options, variants |-> variants, files |-> <<>>])
  \/ \E variants \in StockedVariantLists, files \in {<<>>, <<"https://x/1.png">>} :
       ParseCreate([productOptions |-> <<[name |-> "Size", values |-> <<"S", "M">>]>>,
                    variants |-> variants, files |-> files])

\* The state after construction: no call has been made.
Init ==
  /\ c_pc = "idle"
  /\ c_variants = 0
  /\ c_synchronous = FALSE
  /\ c_submits = 0
  /\ c_submitResp = NoResponse
  /\ c_polls = 0
  /\ c_waits = 0
  /\ c_now = 0
  /\ c_started = 0
  /\ c_lastPoll = NoResponse
  /\ c_operationId = <<>>
  /\ c_result = Pending
  /\ s_pc = "idle"
  /\ s_params = [page |-> 0, limit |-> 0]
  /\ s_total = 0
  /\ s_page = 0
  /\ s_limit = 0
  /\ s_after = None
  /\ s_i = 0
  /\ s_counts = 0
  /\ s_requests = <<>>
  /\ s_answered = 0
  /\ s_lastStep = "none"
  /\ s_lastResp = [transport |-> "none", products |-> None]
  /\ s_countResp = [transport |-> "none", data |-> FALSE, count |-> 0]
  /\ s_result = NoPage
  /\ f_pc = "idle"
  /\ f_id = <<>>
  /\ f_product = None
  /\ f_variants = <<>>
  /\ f_next = None
  /\ f_fetches = 0
  /\ f_pages = <<>>
  /\ f_sentAfter = None
  /\ f_lastChunk = [transport |-> "none", variants |-> None]
  /\ f_result = NoProduct
  /\ h_pc = "idle"
  /\ h_resp = NoHealthResponse
  /\ h_result = NoHealth
  /\ session = "offline_shop"
  /\ callerCancelled = FALSE
  /\ k_result = Pending
  /\ k_logged = FALSE
  /\ g_in = NotCalled
  /\ g_out = NotCalled
  /\ q_params = NotCalled
  /\ q_out = NotCalled
  /\ i_product = NotCalled
  /\ i_out = NotCalled
  /\ v_input = NotCalled
  /\ v_out = NotCalled

CreateNext ==
  \/ \E n \in VariantCounts : CreateCall(n)
  \/ \E r \in SubmitResponses, lat \in Latencies : CreateSubmitResponse(r, lat)
  \/ \E r \in PollResponses, lat \in Latencies : CreatePollResponse(r, lat)
  \/ CreatePollWake

vars == <<cvars, svars, fvars, hvars, session, callerCancelled, k_result, k_logged, pureVars>>

\* One create call against any backend.
SpecCreate ==
  Init /\ [][CreateNext]_vars

\* One search call against any backend.
SpecSearch ==
  Init /\ [][SearchNext]_vars

\* CreateProductSchema parses one input.
SpecSchema ==
  Init /\ [][SchemaNext]_vars

\* mapUnifiedProduct picks the image of one product node.
SpecImage ==
  Init /\ [][ImageNext]_vars

\* search builds its query string and sort from one params value.
SpecQuery ==
  Init /\ [][QueryNext]_vars

\* A toGid schema parses one value.
SpecCodec ==
  Init /\ [][CodecNext]_vars

\* A search call and a checkHealth call of two callers on the one service:
\* their request and response steps interleave in any order.
FacadeNext == SearchNext \/ HealthNext

SpecFacade ==
  Init /\ [][FacadeNext]_vars

\* One findProduct call against any backend.
SpecFind ==
  Init /\ [][FindNext]_vars

\* The caller of create gives up on a call that is polling (its own deadline
\* passes, or its client goes away).  waitForProductOperation(opId,
\* intervalMs, timeoutMs) takes no signal, so nothing of the call changes.
CallerCancels ==
  /\ c_pc \in {"polling", "sleeping"}
  /\ ~callerCancelled
  /\ callerCancelled' = TRUE
  /\ UNCHANGED <<cvars, svars, fvars, hvars, session, k_result, k_logged, pureVars>>

CreateCancelNext == CreateNext \/ CallerCancels

\* create with a caller that may give up while the call polls.
SpecCreateCancel == Init /\ [][CreateCancelNext]_vars

\* StoreController.create: `return this.store.create(body)` hands the promise
\* of create to the async function's own promise and leaves the try block at
\* once; create, being async, never throws while it is being called, so the
\* catch block is not entered. The controller's promise settles as create's
\* promise did.
ControllerSettles ==
  /\ c_pc \in {"done", "failed"}
  /\ k_result.kind = "pending"
  /\ k_result' = c_result
  /\ UNCHANGED <<cvars, svars, fvars, hvars, session, callerCancelled, k_logged, pureVars>>

ControllerNext == CreateNext \/ ControllerSettles

\* A POST to the controller: one create call and the controller's answer.
SpecController == Init /\ [][ControllerNext]_vars

\* create when every request in flight is answered and every timer fires.
SpecCreateFair == Init /\ [][CreateNext]_vars /\ WF_vars(CreateNext)

(***************************************************************************)
(* Properties of create.                                                   *)
(***************************************************************************)
\* The mutation was answered with data, without GraphQL errors or user errors.
CleanSubmit ==
  /\ c_submitResp.transport = "ok"
  /\ ~c_submitResp.errors
  /\ c_submitResp.data
  /\ Len(c_submitResp.userErrors) = 0

\* The last status query was answered with an operation, without GraphQL errors.
PollAnswered ==
  /\ c_lastPoll.transport = "ok"
  /\ ~c_lastPoll.errors
  /\ c_lastPoll.data
  /\ c_lastPoll.op.some

Elapsed == c_now - c_started

\* C3: a request of at most 10 variants answered with an immediate product and
\* no user errors returns the product's id without its gid://shopify/Product/
\* prefix, and no status query is sent.
InvC3 ==
  (CleanSubmit /\ c_variants <= 10 /\ c_submitResp.product.some)
    => /\ c_pc = "done"
       /\ c_result.kind = "returned"
       /\ Gid(KindProduct, c_result.value) = c_submitResp.product.val
       /\ c_polls = 0

WitC3 ==
  /\ c_pc = "done"
  /\ c_variants = 3
  /\ CleanSubmit
  /\ c_submitResp.product = Some(SyncProductId)
  /\ c_result = Returned(<<"4","2">>)
  /\ c_polls = 0

\* C4: when the k-th status query is the one answered COMPLETE with a product
\* id and no user errors, create returns that id after k status queries and
\* k-1 waits of the polling interval; the first query is sent without a wait.
InvC4 ==
  /\ c_pc = "polling" => c_waits = c_polls - 1
  /\ (/\ PollAnswered
      /\ c_lastPoll.op.val.status = "COMPLETE"
      /\ c_lastPoll.op.val.product.some
      /\ c_lastPoll.op.val.product.val # <<>>
      /\ Len(c_lastPoll.op.val.userErrors) = 0)
       => /\ c_pc = "done"
          /\ c_result = Returned(c_lastPoll.op.val.product.val)
          /\ c_polls >= 1
          /\ c_waits = c_polls - 1
          /\ Elapsed >= (c_polls - 1) * 1500

\* ACTIVE at submission, then a third status query answered COMPLETE, with
\* every request answered at once: 2 polling intervals have passed.
WitC4 ==
  /\ c_pc = "done"
  /\ c_variants = 50
  /\ c_submitResp.op.some
  /\ c_submitResp.op.val.status = "ACTIVE"
  /\ c_polls = 3
  /\ c_waits = 2
  /\ Elapsed = 3000
  /\ c_result = Returned(AsyncProductId)

\* C5: while every status query is answered CREATED or ACTIVE without user
\* errors, the loop goes on only while the elapsed time is within the timeout;
\* the query after which it is exceeded fails the call with the timeout
\* error, which carries the status of that last answer.
InvC5 ==
  (/\ PollAnswered
   /\ c_lastPoll.op.val.status \in {"CREATED", "ACTIVE"}
   /\ Len(c_lastPoll.op.val.userErrors) = 0)
    => /\ c_pc \in {"sleeping", "polling", "failed"}
       /\ c_pc = "sleeping" => Elapsed <= 120000
       /\ c_pc = "polling" => Elapsed <= 120000 + 1500
       /\ c_pc = "failed" =>
            /\ Elapsed > 120000
            /\ c_result = Thrown("Timed out waiting for productSet operation",
                                 <<c_lastPoll.op.val.status>>)

WitC5 ==
  /\ c_pc = "failed"
  /\ c_result = Thrown("Timed out waiting for productSet operation", <<"CREATED">>)
  /\ c_submitResp.op.val.status = "ACTIVE"
  /\ c_polls = 82

\* C6: whatever create returns has no gid://shopify/ prefix.
InvC6 == c_pc = "done" => ~IsPrefix(GidPrefix, c_result.value)

\* C7: the response mode, not the flag, decides: at most 10 variants answered
\* with an operation and no product goes on through the operation, and more
\* than 10 variants answered with a product and no operation returns its id.
InvC7 ==
  /\ (/\ CleanSubmit
      /\ c_variants <= 10
      /\ c_submitResp.op.some
      /\ ~c_submitResp.product.some
      /\ c_submitResp.op.val.status # "COMPLETE")
       => c_polls >= 1
  /\ (/\ CleanSubmit
      /\ c_variants <= 10
      /\ c_submitResp.op.some
      /\ ~c_submitResp.product.some
      /\ c_submitResp.op.val.status = "COMPLETE"
      /\ c_submitResp.op.val.product.some
      /\ c_submitResp.op.val.product.val # <<>>)
       => c_pc = "done"
  /\ (/\ CleanSubmit
      /\ c_variants > 10
      /\ c_submitResp.product.some
      /\ ~c_submitResp.op.some)
       => c_pc = "done"

\* C8: after a submission without user errors, neither or both of product and
\* operation fail the call; it returns or polls only with exactly one of them.
InvC8 ==
  CleanSubmit =>
    /\ (c_submitResp.product.some = c_submitResp.op.some)
         => /\ c_pc = "failed"
            /\ c_polls = 0
    /\ (c_pc = "done" \/ c_polls >= 1)
         => (c_submitResp.product.some # c_submitResp.op.some)

\* C9: a status answer whose operation lists user errors fails the call with
\* the aggregated messages, and no status query follows it.
InvC9 ==
  (PollAnswered /\ Len(c_lastPoll.op.val.userErrors) > 0)
    => /\ c_pc = "failed"
       /\ c_result = Thrown("ProductSet operation failed",
                            JoinMessages(c_lastPoll.op.val.userErrors))

WitC9 ==
  /\ c_pc = "failed"
  /\ PollAnswered
  /\ c_lastPoll.op.val.status = "ACTIVE"
  /\ c_polls = 2
  /\ c_result = Thrown("ProductSet operation failed",
                       <<"Title is blank", ", ", "Price is negative">>)

\* C10: an operation that is COMPLETE without a product id, in a status answer
\* or in the answer to the submission, fails the call; no returned id is empty.
InvC10 ==
  /\ c_pc = "done" => c_result.value # <<>>
  /\ (/\ PollAnswered
      /\ Len(c_lastPoll.op.val.userErrors) = 0
      /\ c_lastPoll.op.val.status = "COMPLETE"
      /\ (~c_lastPoll.op.val.product.some \/ c_lastPoll.op.val.product.val = <<>>))
       => c_pc = "failed"
  /\ (/\ CleanSubmit
      /\ ~c_submitResp.product.some
      /\ c_submitResp.op.some
      /\ c_submitResp.op.val.status = "COMPLETE"
      /\ (~c_submitResp.op.val.product.some \/ c_submitResp.op.val.product.val = <<>>))
       => c_pc = "failed"

\* C11: a submission answered with an operation whose status is already
\* COMPLETE makes create return that operation's product id at once, with no
\* status query sent.
InvC11 ==
  (/\ CleanSubmit
   /\ c_submitResp.op.some
   /\ c_submitResp.op.val.status = "COMPLETE"
   /\ c_submitResp.op.val.product.some
   /\ c_submitResp.op.val.product.val # <<>>)
    => /\ c_pc = "done"
       /\ c_result = Returned(c_submitResp.op.val.product.val)
       /\ c_polls = 0

\* C12: a status query whose transport fails ends create with that failure;
\* the query is not sent again and no later query follows.
InvC12 ==
  c_lastPoll.transport = "throw"
    => /\ c_pc = "failed"
       /\ c_result = Thrown("TransportError", <<>>)

\* The third status query failed in transport and create failed with it.
WitC12 ==
  /\ c_lastPoll.transport = "throw"
  /\ c_polls = 3
  /\ c_pc = "failed"
  /\ c_result = Thrown("TransportError", <<>>)

\* C14: once the caller has given up, no further status query is sent.
ActC14 == [][callerCancelled => c_polls' = c_polls]_vars

\* The most status queries one call sends: timeoutMs / intervalMs, plus the
\* first query and the one that finds the timeout passed.
MaxPolls == (TimeoutMs \div IntervalMs) + 2

\* C15: when every request is answered and every wait lasts intervalMs, a
\* create call that was submitted ends, returned or thrown; once ended its
\* outcome does not change; and it sends at most timeoutMs / intervalMs + 2
\* status queries, whatever statuses the backend reports.
LiveC15 ==
  /\ (c_pc = "submitted") ~> (c_pc \in {"done", "failed"})
  /\ [][(c_pc \in {"done", "failed"}) => UNCHANGED <<c_pc, c_result>>]_vars
  /\ [](c_polls <= MaxPolls)
  /\ [](c_pc \in {"done", "failed"} <=> c_result.kind \in {"returned", "thrown"})

\* A call that only ever saw a non-terminal status and ended by the timeout
\* after the most status queries it can send.
WitC15 ==
  /\ c_pc = "failed"
  /\ c_polls = MaxPolls
  /\ PollAnswered
  /\ c_lastPoll.op.val.status \in {"CREATED", "ACTIVE"}
  /\ c_result.kind = "thrown"

(***************************************************************************)
(* Properties of search.                                                   *)
(***************************************************************************)
\* C1: for page >= 2, a skip step answered with hasNextPage = false, or with
\* no pageInfo, ends the call with an empty page, hasNext = false and
\* hasPrev = true; nothing is thrown and no listing request follows.
InvC1 ==
  (/\ s_params.page >= 2
   /\ s_lastStep = "hop"
   /\ s_lastResp.transport = "ok"
   /\ \/ ~s_lastResp.products.some
      \/ ~s_lastResp.products.val.pageInfo.some
      \/ ~s_lastResp.products.val.pageInfo.val.hasNextPage)
    => /\ s_pc = "done"
       /\ s_result.kind = "returned"
       /\ s_result.items = <<>>
       /\ s_result.meta.hasNext = FALSE
       /\ s_result.meta.hasPrev = TRUE
       /\ Len(s_requests) = s_answered

\* Page 3 asked for; the second skip step comes back without pageInfo.
WitC1 ==
  /\ s_pc = "done"
  /\ s_params.page = 3
  /\ s_lastStep = "hop"
  /\ s_answered = 2
  /\ s_lastResp.products.some
  /\ ~s_lastResp.products.val.pageInfo.some
  /\ s_result.items = <<>>

\* C2: for page >= 1 and limit in 1..100, a returned page has at most limit
\* items, meta.limit is the limit asked for and meta.hasPrev is page > 1.
InvC2 ==
  (/\ s_pc = "done"
   /\ s_params.page >= 1
   /\ s_params.limit \in 1..100)
    => /\ Len(s_result.items) <= s_params.limit
       /\ s_result.meta.limit = s_params.limit
       /\ s_result.meta.hasPrev = (s_params.page > 1)

\* A full page: as many items as the limit, on page 2.
WitC2 ==
  /\ s_pc = "done"
  /\ s_params = [page |-> 2, limit |-> 2]
  /\ s_lastStep = "final"
  /\ Len(s_result.items) = 2
  /\ s_result.meta.hasPrev

\* C13: a transport failure of the count request or of a listing request
\* (skip step or final) makes search fail with the error, and no page is
\* returned.
InvC13 ==
  (s_countResp.transport = "throw" \/ s_lastResp.transport = "throw")
    => /\ s_pc = "failed"
       /\ s_result = ThrownPage

\* The final listing request was answered with a pageInfo.
FinalAnswered ==
  /\ s_lastStep = "final"
  /\ s_lastResp.transport = "ok"
  /\ s_lastResp.products.some
  /\ s_lastResp.products.val.pageInfo.some

\* C18: when the final listing request is reached and answered, meta.hasNext
\* is the hasNextPage of that answer, whatever meta.total is.
InvC18 ==
  FinalAnswered
    => /\ s_pc = "done"
       /\ s_result.kind = "returned"
       /\ s_result.meta.hasNext = s_lastResp.products.val.pageInfo.val.hasNextPage

\* A page with items and total 0 whose final answer said hasNextPage = true.
WitC18 ==
  /\ FinalAnswered
  /\ s_pc = "done"
  /\ s_result.meta.total = 0
  /\ s_result.meta.hasNext
  /\ s_lastResp.products.val.pageInfo.val.hasNextPage
  /\ Len(s_result.items) > 0

(***************************************************************************)
(* Properties of findProduct.                                              *)
(***************************************************************************)
\* The simplified ids of the variants of pages j..Len(pages), page by page.
RECURSIVE ExpectedVariantIds(_, _)
ExpectedVariantIds(pages, j) ==
  IF j > Len(pages) THEN <<>>
  ELSE [k \in 1..pages[j].size |-> DecStr((j - 1) * 1000 + k)]
         \o ExpectedVariantIds(pages, j + 1)

\* Every PRODUCT_VARIANTS_PAGE request sent was answered with a chunk.
ChunksAnswered ==
  f_fetches = 0 \/ (f_lastChunk.transport = "ok" /\ f_lastChunk.variants.some)

\* C16: findProduct returns the variants of the first page followed by those
\* of each chunk in the order fetched; it sends no PRODUCT_VARIANTS_PAGE
\* request when the first page has hasNextPage = false, and else one per
\* chunk up to and including the first with hasNextPage = false.
InvC16 ==
  (f_pc = "done" /\ ChunksAnswered)
    => LET got == f_result.product.val.variants
       IN  /\ f_result.kind = "returned"
           /\ [k \in 1..Len(got) |-> got[k].id] = ExpectedVariantIds(f_pages, 1)
           /\ f_fetches = Len(f_pages) - 1
           /\ \A j \in 1..(Len(f_pages) - 1) : f_pages[j].hasNextPage
           /\ ~f_pages[Len(f_pages)].hasNextPage

\* 300 variants, 250 on the first page: one overflow request, all returned.
WitC16 ==
  /\ f_pc = "done"
  /\ f_pages = <<[size |-> DETAILS_VARIANTS_PAGE_SIZE, hasNextPage |-> TRUE],
                 [size |-> 50, hasNextPage |-> FALSE]>>
  /\ f_fetches = 1
  /\ Len(f_result.product.val.variants) = 300
  /\ f_result.product.val.variants[251].id = <<"1","0","0","1">>

\* C17: a chunk that says hasNextPage = true and carries the end cursor the
\* response before it carried makes the walk fail, with no further request.
InvC17 ==
  (/\ f_lastChunk.transport = "ok"
   /\ f_lastChunk.variants.some
   /\ f_lastChunk.variants.val.pageInfo.hasNextPage
   /\ f_sentAfter.some
   /\ f_lastChunk.variants.val.pageInfo.endCursor = f_sentAfter)
    => /\ f_pc = "failed"
       /\ f_result.kind = "thrown"

(***************************************************************************)
(* Properties of checkHealth and of calls that interleave.                 *)
(***************************************************************************)
\* C19: checkHealth throws nothing; it returns 'healthy' when the query
\* resolves with data, 'warning' when it resolves without data, and 'error'
\* with the error's message when the query throws.
InvC19 ==
  /\ h_pc # "failed"
  /\ h_result.kind # "thrown"
  /\ h_pc = "done"
       => /\ h_result.kind = "returned"
          /\ h_resp.transport = "throw"
               => (h_result.status = "error" /\ h_result.message = h_resp.message)
          /\ (h_resp.transport = "ok" /\ ~h_resp.errors /\ h_resp.data)
               => h_result.status = "healthy"
          /\ (h_resp.transport = "ok" /\ ~h_resp.errors /\ ~h_resp.data)
               => h_result.status = "warning"

\* The shop query threw and checkHealth returned 'error' with the message.
WitC19 ==
  /\ h_pc = "done"
  /\ h_resp.transport = "throw"
  /\ h_result = HealthStatus("error", "ECONNRESET")

\* The page and limit search works with, from its own parameters.
OwnPage == IF s_params.page < 1 THEN 1 ELSE s_params.page
OwnLimit ==
  IF s_params.limit = 0 THEN 20
  ELSE IF s_params.limit > 250 THEN 250
  ELSE IF s_params.limit < 1 THEN 1
  ELSE s_params.limit
OwnTotal ==
  IF s_countResp.transport = "ok" /\ s_countResp.data THEN s_countResp.count ELSE 0

\* What each call returned follows from its own parameters and the answers to
\* its own requests.
OwnResults ==
  /\ s_pc = "done"
       => /\ s_result.kind = "returned"
          /\ s_result.meta.total = OwnTotal
          /\ s_result.meta.page = OwnPage
          /\ s_result.meta.limit = OwnLimit
          /\ s_result.meta.hasPrev = (OwnPage > 1)
          /\ s_lastStep = "hop" => (s_result.items = <<>> /\ ~s_result.meta.hasNext)
          /\ s_lastStep = "final"
               => /\ s_answered = OwnPage
                  /\ Len(s_result.items) =
                       IF s_lastResp.products.some
                       THEN Len(s_lastResp.products.val.edges) ELSE 0
                  /\ \A k \in 1..Len(s_result.items) :
                       Gid(KindProduct, s_result.items[k].id)
                         = s_lastResp.products.val.edges[k].id
  /\ s_pc = "failed" => s_lastResp.transport = "throw"
  /\ h_pc = "done"
       => h_result.status =
            IF h_resp.transport = "throw" THEN "error"
            ELSE IF h_resp.data THEN "healthy" ELSE "warning"

\* A step of one call leaves the other call's state as it was.
OneCallPerStep ==
  /\ svars' # svars => UNCHANGED <<hvars, cvars, fvars>>
  /\ hvars' # hvars => UNCHANGED <<svars, cvars, fvars>>

IsNumeric(v) == IF v.number THEN v.n >= 0 ELSE IsDigits(v.text)

\* t is gid://shopify/<resource>/<digits>.
IsGidOf(resource, t) ==
  /\ IsPrefix(Gid(resource, <<>>), t)
  /\ IsDigits(SubSeq(t, Len(Gid(resource, <<>>)) + 1, Len(t)))

\* str(v)
TextOf(v) == IF v.number THEN DecStr(v.n) ELSE v.text

\* The value given is numeric, or a gid of the resource the schema is for.
ValidGiven ==
  \/ IsNumeric(g_in.value)
  \/ (~g_in.value.number /\ IsGidOf(g_in.resource, g_in.value.text))

\* C21 as stated: for v numeric or a valid gid of the kind,
\* simplifyGid(toGid(kind)(v)) is str(v).
OrigC21 ==
  (g_out.called /\ ValidGiven)
    => (g_out.ok /\ g_out.local = TextOf(g_in.value))

\* C21: a numeric v is accepted and simplifyGid(toGid(kind)(v)) is str(v); a
\* valid gid of the kind is accepted unchanged and simplifyGid gives its
\* digits, which toGid wraps back into the gid.
InvC21 ==
  g_out.called
    => /\ IsNumeric(g_in.value)
            => /\ g_out.ok
               /\ g_out.gid = Gid(g_in.resource, TextOf(g_in.value))
               /\ g_out.local = TextOf(g_in.value)
       /\ (~g_in.value.number /\ IsGidOf(g_in.resource, g_in.value.text))
            => /\ g_out.ok
               /\ g_out.gid = g_in.value.text
               /\ IsDigits(g_out.local)
               /\ Gid(g_in.resource, g_out.local) = g_in.value.text

\* gid://shopify/Product/42 given to toGid('Product') comes back as 42.
WitC21 ==
  /\ g_out.called
  /\ g_in.resource = KindProduct
  /\ g_in.value = Str(Gid(KindProduct, <<"4","2">>))
  /\ g_out.ok
  /\ g_out.local = <<"4","2">>

\* C22: what toGid(kind) accepts is gid://shopify/<kind>/<digits> with the
\* kind the schema is for.
InvC22 ==
  (g_out.called /\ g_out.ok) => IsGidOf(g_in.resource, g_out.gid)

\* C23: findProduct goes on to the backend only with the gid of a product,
\* gid://shopify/Product/<digits>, made from a numeric id or given in full;
\* every other id fails with 'Unsupported Shopify product identifier' and no
\* request is sent.
InvC23 ==
  (f_pc # "idle" /\ ~IsGidOf(KindProduct, f_id))
    => /\ f_pc = "failed"
       /\ f_result = FindThrown("Unsupported Shopify product identifier")
       /\ ~f_product.some

\* C30: a product findProduct returns has at least one variant.
InvC30 ==
  f_pc = "done" => Len(f_result.product.val.variants) > 0

(***************************************************************************)
(* Properties of buildShopifyQuery and mapSort.                            *)
(***************************************************************************)
\* The token of one filter of f, when that filter is active.
TokenOf(name, f) ==
  IF name = "vendor"
    THEN IF Truthy(f.vendor) THEN <<kv(<<"v","e","n","d","o","r">>, f.vendor.val)>> ELSE <<>>
  ELSE IF name = "category"
    THEN IF Truthy(f.category) THEN <<kv(<<"p","r","o","d","u","c","t","_","t","y","p","e">>, f.category.val)>> ELSE <<>>
  ELSE IF name = "price_min"
    THEN IF f.price_min.some THEN <<<<"p","r","i","c","e",":",">","=">> \o DecStr(f.price_min.val)>> ELSE <<>>
  ELSE IF name = "price_max"
    THEN IF f.price_max.some THEN <<<<"p","r","i","c","e",":","<","=">> \o DecStr(f.price_max.val)>> ELSE <<>>
  ELSE IF f.available_only.some /\ f.available_only.val
    THEN <<<<"i","n","v","e","n","t","o","r","y","_","t","o","t","a","l",":",">","0">>>> ELSE <<>>

RECURSIVE TokensIn(_, _)
TokensIn(order, f) ==
  IF order = <<>> THEN <<>> ELSE TokenOf(order[1], f) \o TokensIn(Tail(order), f)

\* The free-text token, when the text is given and not blank.
FreeText(query) ==
  IF query.some /\ Trim(query.val) # <<>> THEN <<escapeDefault(Trim(query.val))>> ELSE <<>>

RECURSIVE Spaced(_)
Spaced(parts) ==
  IF parts = <<>> THEN <<>>
  ELSE parts[1] \o (IF Len(parts) > 1 THEN <<" ">> \o Spaced(Tail(parts)) ELSE <<>>)

\* The query string for the params given, with the filter tokens in `order`.
QueryIn(order) ==
  Spaced(FreeText(q_params.params.query) \o TokensIn(order, q_params.params.filters))

\* C24 as stated: the filter tokens follow the free text in the order
\* category, vendor, priceMin, priceMax, availableOnly.
OrigC24 ==
  q_out.called
    => /\ q_out.listQuery.val =
            QueryIn(<<"category", "vendor", "price_min", "price_max", "available_only">>)
       /\ q_out.countQuery = q_out.listQuery

\* C24: the query string is the free-text token, when given and not blank,
\* followed by the tokens of the active filters in the order vendor,
\* category, priceMin, priceMax, availableOnly, joined by single spaces; the
\* count request and the listing requests carry the same string, or both
\* carry null when it is empty.
InvC24 ==
  q_out.called
    => /\ q_out.listQuery.val =
            QueryIn(<<"vendor", "category", "price_min", "price_max", "available_only">>)
       /\ q_out.listQuery.some = (q_out.listQuery.val # <<>>)
       /\ q_out.countQuery = q_out.listQuery

\* Free text and every filter given: the vendor's token precedes the
\* category's.
WitC24 ==
  /\ q_out.called
  /\ q_out.listQuery.some
  /\ q_out.listQuery.val =
       <<"a","b"," ","v","e","n","d","o","r",":","'","a","c","m","e","'"," ","p","r","o","d","u","c","t","_","t","y","p","e",":","'","s","h","o","e","s","'"," ","p","r","i","c","e",":",">","=","0"," ","p","r","i","c","e",":","<","=","9"," ","i","n","v","e","n","t","o","r","y","_","t","o","t","a","l",":",">","0">>

\* C25: without sort entries the sort is RELEVANCE when a query is given and
\* ID when not, never reversed; with sort entries the first alone gives the
\* sort key, and reverse is true exactly when its direction is desc.
InvC25 ==
  q_out.called
    => LET sort == q_params.params.sort
       IN  /\ sort = <<>>
                => /\ q_out.sortKey =
                        IF q_params.params.query.some THEN "RELEVANCE" ELSE "ID"
                   /\ ~q_out.reverse
           /\ sort # <<>>
                => /\ q_out.sortKey = IF sort[1].by = "updated" THEN "UPDATED_AT" ELSE "TITLE"
                   /\ q_out.reverse = (sort[1].dir = "desc")

\* Two sort entries that disagree: the first one, name descending, decides.
WitC25 ==
  /\ q_out.called
  /\ q_params.params.sort = <<[by |-> "name", dir |-> "desc"], [by |-> "updated", dir |-> "asc"]>>
  /\ q_out.sortKey = "TITLE"
  /\ q_out.reverse

(***************************************************************************)
(* Properties of extractPrimaryImage.                                      *)
(***************************************************************************)
\* A media node is an image with a direct or a preview url.
UsableImage(n) == n.some /\ n.typename = "MediaImage" /\ (n.image.some \/ n.preview.some)

\* The url of a usable image: the direct one before the preview's.
UrlOf(n) == IF n.image.some THEN n.image.val ELSE n.preview.val

\* C26: at most one image is kept: the featured media when it is a usable
\* image; else the first usable image of the media list, wherever it stands;
\* else the preview of the first media entry; else none.
InvC26 ==
  i_out.called
    => LET media == i_product.media
           usable == {k \in 1..Len(media) : UsableImage(media[k])}
       IN  /\ Len(i_out.images) <= 1
           /\ i_out.images =
                IF UsableImage(i_product.featuredMedia)
                  THEN <<[url |-> UrlOf(i_product.featuredMedia)]>>
                ELSE IF usable # {}
                  THEN <<[url |-> UrlOf(media[SetMin(usable)])]>>
                ELSE IF media # <<>> /\ media[1].preview.some
                  THEN <<[url |-> media[1].preview.val]>>
                ELSE <<>>

(***************************************************************************)
(* Properties of CreateProductSchema.                                      *)
(***************************************************************************)
\* The (optionName, value) pairs of the i-th variant given, as a set.
PairsOf(i) ==
  LET ovs == v_input.input.variants[i].optionValues
  IN  {ovs[k] : k \in 1..Len(ovs)}

\* An option value resolves: its option is declared and lists the value.
Resolves(ov) ==
  \E k \in 1..Len(v_input.input.productOptions) :
    LET opt == v_input.input.productOptions[k]
    IN  opt.name = ov.optionName /\ \E j \in 1..Len(opt.values) : opt.values[j] = ov.name

\* The i-th variant given lists no (optionName, value) pair twice.
NoPairTwice(i) ==
  Cardinality(PairsOf(i)) = Len(v_input.input.variants[i].optionValues)

\* C27: an input in which two variants list the same (optionName, value)
\* pairs, each pair once and in whatever order, is not accepted.
InvC27 ==
  (/\ v_out.called
   /\ \E i, j \in 1..Len(v_input.input.variants) :
        i < j /\ PairsOf(i) = PairsOf(j) /\ NoPairTwice(i) /\ NoPairTwice(j))
    => v_out.outcome # "accepted"

\* C28: an input in which some option value of some variant does not
\* resolve is rejected with the issue of the refine.
InvC28 ==
  (/\ v_out.called
   /\ \E i \in 1..Len(v_input.input.variants) : \E ov \in PairsOf(i) : ~Resolves(ov))
    => /\ v_out.outcome = "rejected"
       /\ [rule |-> "options", variant |-> 0] \in v_out.issues

\* The i-th variant given has tracking enabled: an inventoryItem with
\* tracked true or left to its default.
TrackingEnabled(i) ==
  LET item == v_input.input.variants[i].inventoryItem
  IN  item.some /\ (~item.tracked.some \/ item.tracked.val)

\* C29: a variant with a non-empty inventoryQuantities list and tracking not
\* enabled makes the input rejected with the issue of that rule; a variant
\* with tracking enabled, given or by default, never gets that issue.
InvC29 ==
  v_out.called
    => \A i \in 1..Len(v_input.input.variants) :
         /\ (/\ Len(v_input.input.variants[i].inventoryQuantities.val) > 0
             /\ ~TrackingEnabled(i))
              => /\ v_out.outcome = "rejected"
                 /\ [rule |-> "tracked", variant |-> i] \in v_out.issues
         /\ TrackingEnabled(i) => [rule |-> "tracked", variant |-> i] \notin v_out.issues

\* Quantities with an inventoryItem whose tracked is left to its default are
\* accepted; and the second variant's quantities without inventoryItem are
\* rejected.
WitC29 ==
  /\ v_out.called
  /\ Len(v_input.input.variants) = 2
  /\ v_input.input.variants[1].inventoryItem = [some |-> TRUE, tracked |-> Absent]
  /\ Len(v_input.input.variants[1].inventoryQuantities.val) > 0
  /\ v_out.issues = {[rule |-> "tracked", variant |-> 2]}

(***************************************************************************)
(* Further properties of create.                                           *)
(***************************************************************************)
\* C31: a submission answered with one or more user errors fails the call
\* with one failure that carries all their messages joined; no status query
\* is sent and nothing is returned, whatever product or operation the same
\* answer holds.
InvC31 ==
  (/\ c_submitResp.transport = "ok"
   /\ ~c_submitResp.errors
   /\ c_submitResp.data
   /\ Len(c_submitResp.userErrors) > 0)
    => /\ c_pc = "failed"
       /\ c_result = Thrown("Failed to create product: user errors",
                            JoinMessages(c_submitResp.userErrors))
       /\ c_polls = 0

\* Two user errors beside an operation handle and a product, for a request
\* of 50 variants.
WitC31 ==
  /\ c_pc = "failed"
  /\ c_variants = 50
  /\ c_submitResp.transport = "ok"
  /\ c_submitResp.userErrors = <<"Title is blank", "Price is negative">>
  /\ c_submitResp.product.some
  /\ c_submitResp.op.some
  /\ c_submitResp.op.val.status = "ACTIVE"
  /\ c_result.detail = <<"Title is blank", ", ", "Price is negative">>
  /\ c_polls = 0

\* C33: the timeout runs from the moment the mutation is sent (c_now = 0):
\* the loop waits for another status query only while the time since then is
\* within timeoutMs, and a status query is in flight no later than one
\* interval after it.
InvC33 ==
  /\ c_pc = "sleeping" => c_now <= TimeoutMs
  /\ c_pc = "polling" => c_now <= TimeoutMs + IntervalMs

\* C34: a call sends the create mutation once, when it begins and before any
\* status query; no step after that sends it again, whatever the answers
\* are; and every status query is sent with the id of the operation that the
\* answer to that one mutation held.
PropC34 ==
  /\ [](c_submits = IF c_pc = "idle" THEN 0 ELSE 1)
  /\ [](c_pc \in {"idle", "submitted"} => c_polls = 0)
  /\ [][(c_pc # "idle") => c_submits' = c_submits]_vars
  /\ [](c_polls >= 1
         => /\ c_submitResp.transport = "ok"
            /\ c_submitResp.op.some
            /\ c_operationId = c_submitResp.op.val.id)

\* A call that timed out after the most status queries it can send: one
\* mutation, and the queries carried the handle of its answer.
WitC34 ==
  /\ c_pc = "failed"
  /\ c_submits = 1
  /\ c_polls = MaxPolls
  /\ c_operationId = OperationId
  /\ c_submitResp.op.val.id = OperationId
  /\ c_result.msg = "Timed out waiting for productSet operation"

\* C35: a status answer is judged by its user errors first, then by COMPLETE,
\* then by the timeout: with user errors the call fails even when the answer
\* is COMPLETE with a product id; COMPLETE with a product id and no user
\* errors returns that id however much time has passed; and the call fails
\* by timeout only on a status answer that was neither, so after at least one
\* status query.
InvC35 ==
  /\ (/\ PollAnswered
      /\ Len(c_lastPoll.op.val.userErrors) > 0
      /\ c_lastPoll.op.val.status = "COMPLETE"
      /\ c_lastPoll.op.val.product = Some(AsyncProductId))
       => /\ c_pc = "failed"
          /\ c_result.msg = "ProductSet operation failed"
  /\ (/\ PollAnswered
      /\ Len(c_lastPoll.op.val.userErrors) = 0
      /\ c_lastPoll.op.val.status = "COMPLETE"
      /\ c_lastPoll.op.val.product = Some(AsyncProductId))
       => /\ c_pc = "done"
          /\ c_result = Returned(AsyncProductId)
  /\ (c_result.msg = "Timed out waiting for productSet operation")
       => /\ c_polls >= 1
          /\ PollAnswered
          /\ Len(c_lastPoll.op.val.userErrors) = 0
          /\ c_lastPoll.op.val.status \in {"CREATED", "ACTIVE"}
          /\ Elapsed > TimeoutMs

\* The third status query was answered COMPLETE with a product id after the
\* timeout had passed, and the call returned the id.
WitC35 ==
  /\ c_pc = "done"
  /\ c_polls = 3
  /\ PollAnswered
  /\ c_lastPoll.op.val.status = "COMPLETE"
  /\ Elapsed > TimeoutMs
  /\ c_result = Returned(AsyncProductId)

\* C36: a status query is in flight only if it was sent while the time since
\* polling began was within timeoutMs.
InvC36 == c_pc = "polling" => c_now - c_started <= TimeoutMs

(***************************************************************************)
(* Further properties of search.                                           *)
(***************************************************************************)
\* C32: a search for page p >= 1 that reaches its final listing request and
\* has it answered sent one count request and then exactly p listing
\* requests, each with first = limit and the first with after = null; every
\* request sent after a skip step carries the endCursor of that step's
\* response, and requests already sent stay as they were; the items returned
\* are those of the p-th response, none of a skipped one.
PropC32 ==
  /\ []((/\ s_pc = "done"
         /\ s_lastStep = "final"
         /\ s_params.page >= 1)
          => /\ s_counts = 1
             /\ Len(s_requests) = s_params.page
             /\ s_answered = s_params.page
             /\ \A j \in 1..Len(s_requests) : s_requests[j].first = s_params.limit
             /\ s_requests[1].after = None
             /\ LET edges == IF s_lastResp.products.some
                             THEN s_lastResp.products.val.edges ELSE <<>>
                IN  /\ Len(s_result.items) = Len(edges)
                    /\ \A k \in 1..Len(edges) :
                         s_result.items[k].id = DecStr(s_params.page) \o DecStr(k))
  /\ [][(s_requests # <<>>)
          => /\ SubSeq(s_requests', 1, Len(s_requests)) = s_requests
             /\ Len(s_requests') > Len(s_requests)
                  => /\ Len(s_requests') = Len(s_requests) + 1
                     /\ s_lastStep' = "hop"
                     /\ s_requests'[Len(s_requests')].after
                          = s_lastResp'.products.val.pageInfo.val.endCursor]_vars

\* Page 3 of size 2: the walk followed c1 and then c2, and the two products
\* of the third response are returned.
WitC32 ==
  /\ s_pc = "done"
  /\ s_lastStep = "final"
  /\ s_params = [page |-> 3, limit |-> 2]
  /\ s_counts = 1
  /\ s_requests = <<[first |-> 2, after |-> None],
                    [first |-> 2, after |-> Some("c1")],
                    [first |-> 2, after |-> Some("c2")]>>
  /\ Len(s_result.items) = 2
  /\ s_result.items[1].id = <<"3","1">>
  /\ s_result.items[2].id = <<"3","2">>

(***************************************************************************)
(* Further properties of findProduct.                                      *)
(***************************************************************************)
\* C37: when a PRODUCT_VARIANTS_PAGE request, sent because the page before it
\* said hasNextPage = true, is answered without product or variants, the
\* call fails and returns no product.
InvC37 ==
  (/\ f_fetches >= 1
   /\ f_lastChunk.transport = "ok"
   /\ ~f_lastChunk.variants.some)
    => /\ f_pc = "failed"
       /\ f_result.kind = "thrown"

(***************************************************************************)
(* Further properties of buildShopifyQuery and mapSort.                    *)
(***************************************************************************)
\* The number of backslashes that stand right before the i-th character.
BackslashRun(s, i) ==
  CHOOSE k \in 0..(i - 1) :
    /\ \A j \in (i - k)..(i - 1) : s[j] = "\\"
    /\ (k = i - 1 \/ s[i - k - 1] # "\\")

\* C38: when the vendor filter is the only part of the query, the string sent
\* is vendor:'...' in which every single quote between the opening and the
\* closing one has an odd number of backslashes before it, and the closing
\* quote an even number.
InvC38 ==
  (/\ q_out.called
   /\ ~q_params.params.query.some
   /\ q_params.params.filters.some
   /\ q_params.params.filters.vendor.some
   /\ q_params.params.filters.vendor.val # <<>>
   /\ ~q_params.params.filters.category.some
   /\ ~q_params.params.filters.price_min.some
   /\ ~q_params.params.filters.price_max.some
   /\ ~q_params.params.filters.available_only.some)
    => LET s == q_out.listQuery.val
       IN  /\ q_out.listQuery.some
           /\ SubSeq(s, 1, 8) = <<"v","e","n","d","o","r",":","'">>
           /\ Len(s) >= 9
           /\ s[Len(s)] = "'"
           /\ BackslashRun(s, Len(s)) % 2 = 0
           /\ \A i \in 9..(Len(s) - 1) : s[i] = "'" => BackslashRun(s, i) % 2 = 1

\* C39: whenever the sort key sent is RELEVANCE, the query string sent begins
\* with the free text given, trimmed and escaped, and that text is not empty.
InvC39 ==
  (q_out.called /\ q_out.sortKey = "RELEVANCE")
    => /\ q_out.listQuery.some
       /\ \E n \in 1..Len(q_out.listQuery.val) :
            SubSeq(q_out.listQuery.val, 1, n)
              = escapeDefault(Trim(q_params.params.query.val))

(***************************************************************************)
(* Properties of StoreController.create.                                   *)
(***************************************************************************)
\* C40: when create failed, the controller has logged the error and answers
\* with the BadRequestException 'Error creating product'.
InvC40 ==
  (c_pc = "failed" /\ k_result.kind # "pending")
    => /\ k_logged
       /\ k_result.kind = "thrown"
       /\ k_result.msg = "Error creating product"

====
